---- MODULE Spec2Model ----
(***************************************************************************)
(* A model of tipsy: the action ledger (internal/state), the rollback      *)
(* engine (internal/rollback) and the endpoint misrouter                   *)
(* (internal/chaos/misroute.go).                                           *)
(*                                                                         *)
(* The ledger file and its directory are taken to be readable and          *)
(* writable: the only ledger errors in the model are a parse error on      *)
(* load and the not-found error of DeleteAction.  Kubernetes API calls,    *)
(* the backup file write and the lookup of the home directory can fail.    *)
(***************************************************************************)
EXTENDS Integers, Sequences, FiniteSets, Bags, TLC

VARIABLES
    file,       \* content of the ledger file (stateFile)
    clock,      \* wall clock, in seconds (time.Now)
    last,       \* the last completed call of the state package, with its result
    mu,         \* holder of the package mutex (0 = unlocked)
    proc,       \* the goroutines that call SaveAction / DeleteAction concurrently
    start,      \* the ledger file when the goroutines were started
    home,       \* TRUE when os.UserHomeDir() succeeds
    pods,       \* pod name -> [exists, eph]: the pods of the namespace
    endpoints,  \* service name -> the live Endpoints object
    backups,    \* backup path -> content of the backup file
    rb,         \* the running RollbackAll call
    mr,         \* the running MisrouteService call
    hist,       \* what the commands run so far have done
    ch          \* the running KillPods or Inject* call

ledgerVars  == <<file, clock>>
callVars    == <<last>>
concVars    == <<mu, proc, start>>
clusterVars == <<home, pods, endpoints, backups>>
cmdVars     == <<rb, mr, hist, ch>>
vars == <<file, clock, last, mu, proc, start, home, pods, endpoints, backups, rb, mr, hist,
          ch>>

----------------------------------------------------------------------------
(* Bounds *)

MaxLedger == 3      \* longest ledger the model builds
MaxClock  == 2      \* seconds the clock can reach
NProc     == 2      \* concurrent goroutines

----------------------------------------------------------------------------
(* ChaosAction and its JSON encoding *)

\* A Go map[string]string: nil, or a set of key/value pairs.
NilMap == [isNil |-> TRUE, kv |-> {}]

GoMap(kv) == [isNil |-> FALSE, kv |-> kv]

ChaosAction(ty, pod, ns, ts, md) ==
    [Type |-> ty, TargetPod |-> pod, Namespace |-> ns, Timestamp |-> ts, Metadata |-> md]

\* time.Now().UTC().Format(time.RFC3339) for the clock values of the model.
RFC3339Table ==
    <<"2023-01-01T00:00:01Z", "2023-01-01T00:00:02Z", "2023-01-01T00:00:03Z",
      "2023-01-01T00:00:04Z">>

FormatRFC3339(t) == RFC3339Table[t]

\* time.Parse(time.RFC3339, s) succeeds
ParsesRFC3339(s) == \E t \in DOMAIN RFC3339Table : RFC3339Table[t] = s

\* json.Marshal of one ChaosAction: the struct tags name the keys, a nil map
\* is written as null.
MarshalAction(a) ==
    [type      |-> a.Type,
     targetPod |-> a.TargetPod,
     namespace |-> a.Namespace,
     timestamp |-> a.Timestamp,
     metadata  |-> IF a.Metadata.isNil THEN [null |-> TRUE, members |-> {}]
                   ELSE [null |-> FALSE, members |-> a.Metadata.kv]]

\* json.Unmarshal of one object into a ChaosAction.
UnmarshalAction(j) ==
    [Type      |-> j.type,
     TargetPod |-> j.targetPod,
     Namespace |-> j.namespace,
     Timestamp |-> j.timestamp,
     Metadata  |-> IF j.metadata.null THEN NilMap ELSE GoMap(j.metadata.members)]

\* The ledger file: absent, zero-length, the JSON text null, a JSON array of
\* action objects, or text that is not JSON.
AbsentFile    == [kind |-> "absent", items |-> <<>>]
ZeroFile      == [kind |-> "zero", items |-> <<>>]
NullFile      == [kind |-> "null", items |-> <<>>]
MalformedFile == [kind |-> "malformed", items |-> <<>>]

\* json.MarshalIndent(actions, "", "  ")
MarshalIndent(actions) ==
    [kind |-> "array", items |-> [i \in 1..Len(actions) |-> MarshalAction(actions[i])]]

ErrNone     == "nil"
ErrParse    == "failed to unmarshal state file"
ErrLoad     == "failed to load existing actions"
ErrNotFound == "action not found"

\* loadActions: an empty slice for an absent or zero-length file, a parse
\* error for text that is not JSON, the decoded entries otherwise.
loadActions(f) ==
    CASE f.kind = "absent"    -> [actions |-> <<>>, err |-> ErrNone]
      [] f.kind = "zero"      -> [actions |-> <<>>, err |-> ErrNone]
      [] f.kind = "null"      -> [actions |-> <<>>, err |-> ErrNone]
      [] f.kind = "malformed" -> [actions |-> <<>>, err |-> ErrParse]
      [] OTHER                ->
            [actions |-> [i \in 1..Len(f.items) |-> UnmarshalAction(f.items[i])],
             err     |-> ErrNone]

\* A stamp that overwrites the timestamp the caller set.
StampAlways(a, now) == [a EXCEPT !.Timestamp = FormatRFC3339(now)]

\* The timestamp SaveAction gives the action: kept when set, now otherwise.
Stamp(a, now) ==
    IF a.Timestamp = "" THEN [a EXCEPT !.Timestamp = FormatRFC3339(now)] ELSE a


\* The new entry put first.
PrependAction(actions, a) == <<a>> \o actions

\* The slice SaveAction marshals: the loaded entries, then the new one.
AppendAction(actions, a) == Append(actions, a)


\* A save that opens the file for writing before it has parsed it.
SaveWriteTruncates(f, ld, a) ==
    IF ld.err # ErrNone
    THEN [file |-> ZeroFile, err |-> ErrLoad]
    ELSE [file |-> MarshalIndent(AppendAction(ld.actions, a)), err |-> ErrNone]

\* SaveAction after the load: append the stamped action, marshal, write.
SaveWrite(f, ld, a) ==
    IF ld.err # ErrNone
    THEN [file |-> f, err |-> ErrLoad]
    ELSE [file |-> MarshalIndent(AppendAction(ld.actions, a)), err |-> ErrNone]

\* SaveAction, from the stamp to the write (the caller holds mu).
SaveAction(f, a, now) == SaveWrite(f, loadActions(f), Stamp(a, now))

\* A clear that leaves the file as it is.
ClearKeeps(f) == [file |-> f, err |-> ErrNone]

\* A clear that truncates the file instead of writing an empty array.
ClearTruncates(f) == [file |-> ZeroFile, err |-> ErrNone]

\* ClearActions writes an empty array whatever the file held.
ClearActions(f) == [file |-> MarshalIndent(<<>>), err |-> ErrNone]

\* Equality that ignores the timestamp (what DeleteAction must not use).
EqualButTimestamp(a, b) == [a EXCEPT !.Timestamp = ""] = [b EXCEPT !.Timestamp = ""]

\* reflect.DeepEqual on two ChaosAction values
DeepEqual(a, b) == a = b


\* Index of the first entry equal to a, 0 when there is none.
FirstMatch(actions, a) ==
    IF \E i \in 1..Len(actions) : DeepEqual(actions[i], a)
    THEN CHOOSE i \in 1..Len(actions) :
            /\ DeepEqual(actions[i], a)
            /\ \A j \in 1..(i - 1) : ~DeepEqual(actions[j], a)
    ELSE 0

RemoveAt(s, i) == SubSeq(s, 1, i - 1) \o SubSeq(s, i + 1, Len(s))

RECURSIVE RemoveAll(_, _)
RemoveAll(s, a) ==
    IF s = <<>> THEN <<>>
    ELSE IF s[1] = a THEN RemoveAll(Tail(s), a) ELSE <<s[1]>> \o RemoveAll(Tail(s), a)

\* A delete that reports success and rewrites the file on a miss.
DeleteWriteLenient(f, ld, a) ==
    LET i == FirstMatch(ld.actions, a) IN
    IF ld.err # ErrNone THEN [file |-> f, err |-> ErrLoad]
    ELSE IF i = 0 THEN [file |-> MarshalIndent(ld.actions), err |-> ErrNone]
    ELSE [file |-> MarshalIndent(RemoveAt(ld.actions, i)), err |-> ErrNone]

\* A delete that removes every equal entry.
DeleteWriteEvery(f, ld, a) ==
    LET i == FirstMatch(ld.actions, a) IN
    IF ld.err # ErrNone THEN [file |-> f, err |-> ErrLoad]
    ELSE IF i = 0 THEN [file |-> f, err |-> ErrNotFound]
    ELSE [file |-> MarshalIndent(RemoveAll(ld.actions, a)), err |-> ErrNone]

\* DeleteAction after the load: remove the first deeply equal entry and
\* write, not-found error when there is none.
DeleteWrite(f, ld, a) ==
    LET i == FirstMatch(ld.actions, a) IN
    IF ld.err # ErrNone THEN [file |-> f, err |-> ErrLoad]
    ELSE IF i = 0 THEN [file |-> f, err |-> ErrNotFound]
    ELSE [file |-> MarshalIndent(RemoveAt(ld.actions, i)), err |-> ErrNone]

\* DeleteAction, from the load to the write (the caller holds mu).
DeleteAction(f, a) == DeleteWrite(f, loadActions(f), a)

----------------------------------------------------------------------------
(* Inputs of the state package *)

Delay200 == GoMap({<<"delay", "200ms">>})

\* Timestamps a caller passes: none, or an RFC3339 string of its own.
CallerStamps == {"", "2023-01-01T00:00:00Z"}

\* Actions handed to SaveAction.
CallActions ==
    {ChaosAction("latency", "pod-1", "default", ts, md) :
        ts \in CallerStamps, md \in {NilMap, Delay200}}

\* Entries a ledger file can hold: saved actions carry a timestamp.
StoredActions == {Stamp(a, t) : a \in CallActions, t \in 1..MaxClock}

LedgerLen(f) == Len(f.items)

NoAction == ChaosAction("", "", "", "", NilMap)

\* No RollbackAll call is running.
IdleRb == [pc |-> "idle", dryRun |-> FALSE, filterType |-> "", filterPod |-> "",
           actions |-> <<>>, filtered |-> <<>>, idx |-> 0, attempts |-> <<>>,
           failedActions |-> <<>>, successCount |-> 0, failureCount |-> 0,
           err |-> ErrNone, before |-> <<>>]

\* No MisrouteService call is running.
IdleMr == [pc |-> "idle", svcName |-> "", namespace |-> "", removeAll |-> FALSE,
           replaceSelector |-> "", dryRun |-> FALSE,
           saveErr |-> ErrNone, ports |-> <<>>, endpoints |-> <<>>,
           modified |-> <<>>, podList |-> <<>>, subsets |-> <<>>, err |-> ErrNone,
           before |-> <<>>]

\* No KillPods or Inject* call is running.
IdleCh == [pc |-> "idle", kind |-> "", selector |-> "", dryRun |-> FALSE,
           method |-> "", count |-> 0, items |-> <<>>, idx |-> 0,
           podsToKill |-> 0, selectedPods |-> <<>>, usedIndices |-> {},
           calls |-> <<>>, affected |-> <<>>, results |-> <<>>, err |-> ErrNone,
           before |-> <<>>]

\* Values of the variables a specification does not use.
NoCall    == [op |-> "none", arg |-> NoAction, pre |-> AbsentFile, now |-> 0,
              err |-> ErrNone, out |-> <<>>]
IdleConc  == /\ mu = 0
             /\ proc = <<>>
             /\ start = AbsentFile
IdleCluster == /\ home = TRUE
               /\ pods = <<>>
               /\ endpoints = <<>>
               /\ backups = <<>>
IdleCmds  == /\ rb = IdleRb
             /\ mr = IdleMr
             /\ hist = [runs |-> 0, rollbacks |-> 0, misroutes |-> 0, saves |-> 0, updates |-> 0, pre |-> <<>>]
             /\ ch = IdleCh

----------------------------------------------------------------------------
(* The state package called sequentially: every call runs to its return *)

StateInit ==
    /\ file \in {AbsentFile, ZeroFile, NullFile, MalformedFile}
    /\ clock = 1
    /\ last = NoCall
    /\ IdleConc
    /\ IdleCluster
    /\ IdleCmds

\* A second passes.
Tick ==
    /\ clock < MaxClock
    /\ clock' = clock + 1
    /\ UNCHANGED <<file, last, concVars, clusterVars, cmdVars>>

\* SaveAction(a): lock, stamp, load, append, marshal, write, unlock.
CallSave(a) ==
    /\ mu = 0
    /\ LedgerLen(file) < MaxLedger
    /\ LET r == SaveAction(file, a, clock) IN
        /\ file' = r.file
        /\ last' = [op |-> "SaveAction", arg |-> a, pre |-> file, now |-> clock,
                    err |-> r.err, out |-> <<>>]
    /\ UNCHANGED <<clock, concVars, clusterVars, cmdVars>>

\* DeleteAction(a): lock, load, remove the first equal entry, write, unlock.
CallDelete(a) ==
    /\ mu = 0
    /\ LET r == DeleteAction(file, a) IN
        /\ file' = r.file
        /\ last' = [op |-> "DeleteAction", arg |-> a, pre |-> file, now |-> clock,
                    err |-> r.err, out |-> <<>>]
    /\ UNCHANGED <<clock, concVars, clusterVars, cmdVars>>

\* LoadActions(): lock, loadActions, unlock; the file is only read.
CallLoad ==
    /\ mu = 0
    /\ LET r == loadActions(file) IN
        last' = [op |-> "LoadActions", arg |-> NoAction, pre |-> file, now |-> clock,
                 err |-> r.err, out |-> r.actions]
    /\ UNCHANGED <<file, clock, concVars, clusterVars, cmdVars>>

\* ClearActions(): lock, write an empty array, unlock.
CallClear ==
    /\ mu = 0
    /\ LET r == ClearActions(file) IN
        /\ file' = r.file
        /\ last' = [op |-> "ClearActions", arg |-> NoAction, pre |-> file, now |-> clock,
                    err |-> r.err, out |-> <<>>]
    /\ UNCHANGED <<clock, concVars, clusterVars, cmdVars>>

StateNext ==
    \/ Tick
    \/ \E a \in CallActions : CallSave(a)
    \/ \E a \in CallActions \cup StoredActions : CallDelete(a)
    \/ CallLoad
    \/ CallClear

SpecState == StateInit /\ [][StateNext]_vars

\* What LoadActions returned before and returns after the last call.
Before == loadActions(last.pre).actions
After  == loadActions(file).actions

CountOf(s, x) == Cardinality({i \in 1..Len(s) : s[i] = x})

\* C8: after a successful SaveAction(a) on a ledger holding L, LoadActions
\* returns L followed by one entry equal to a in type, targetPod, namespace
\* and metadata; its timestamp is a's when a had one, else a non-empty
\* timestamp assigned at save time; the entries of L keep value and order.
SaveLoadRoundTrip ==
    (last.op = "SaveAction" /\ last.err = ErrNone) =>
        /\ loadActions(file).err = ErrNone
        /\ Len(After) = Len(Before) + 1
        /\ SubSeq(After, 1, Len(Before)) = Before
        /\ LET e == After[Len(After)]
               a == last.arg IN
            /\ e.Type = a.Type
            /\ e.TargetPod = a.TargetPod
            /\ e.Namespace = a.Namespace
            /\ e.Metadata = a.Metadata
            /\ a.Timestamp # "" => e.Timestamp = a.Timestamp
            /\ a.Timestamp = "" =>
                    /\ e.Timestamp # ""
                    /\ e.Timestamp = FormatRFC3339(last.now)
                    /\ ParsesRFC3339(e.Timestamp)

\* A save without timestamp succeeded on a ledger that already held entries.
SaveLoadRoundTripWitness ==
    /\ last.op = "SaveAction"
    /\ last.err = ErrNone
    /\ last.arg.Timestamp = ""
    /\ last.arg.Metadata = Delay200
    /\ Len(Before) >= 2
    /\ Before[1] # Before[2]

\* C9: a successful DeleteAction(a) removes exactly one entry, the first one
\* equal to a in every field, and leaves the others in their order; of two
\* entries differing only in timestamp, or two identical ones, one stays.
DeleteRemovesFirstMatch ==
    (last.op = "DeleteAction" /\ last.err = ErrNone) =>
        /\ Len(After) = Len(Before) - 1
        /\ CountOf(After, last.arg) = CountOf(Before, last.arg) - 1
        /\ \A b \in StoredActions :
                b # last.arg => CountOf(After, b) = CountOf(Before, b)
        /\ \E i \in 1..Len(Before) :
                /\ Before[i] = last.arg
                /\ \A j \in 1..(i - 1) : Before[j] # last.arg
                /\ \A j \in 1..(i - 1) : After[j] = Before[j]
                /\ \A j \in i..Len(After) : After[j] = Before[j + 1]

\* A delete succeeded on a ledger holding the action twice and an entry that
\* differs from it only in timestamp.
DeleteRemovesFirstMatchWitness ==
    /\ last.op = "DeleteAction"
    /\ last.err = ErrNone
    /\ CountOf(Before, last.arg) = 2
    /\ \E i \in 1..Len(Before) :
            /\ Before[i] # last.arg
            /\ EqualButTimestamp(Before[i], last.arg)

\* C10: DeleteAction of an action with no fully equal entry in the ledger
\* (the file may be absent) returns the not-found error and leaves the
\* ledger file as it was.
DeleteMissIsNotFound ==
    (/\ last.op = "DeleteAction"
     /\ loadActions(last.pre).err = ErrNone
     /\ CountOf(Before, last.arg) = 0) =>
        /\ last.err = ErrNotFound
        /\ file = last.pre

\* A delete missed on a ledger holding an entry that differs only in
\* timestamp; another missed on an absent file.
DeleteMissIsNotFoundWitness ==
    /\ last.op = "DeleteAction"
    /\ last.err = ErrNotFound
    /\ Len(Before) >= 1
    /\ \E i \in 1..Len(Before) : EqualButTimestamp(Before[i], last.arg)

\* C11: after a successful ClearActions, LoadActions returns an empty list
\* without error whatever the file held before (entries, nothing, no file,
\* text that is not JSON), and a second ClearActions succeeds and leaves the
\* same file.
ClearThenLoadEmpty ==
    (last.op = "ClearActions" /\ last.err = ErrNone) =>
        /\ loadActions(file).err = ErrNone
        /\ After = <<>>
        /\ ClearActions(file).err = ErrNone
        /\ ClearActions(file).file = file
        /\ last.pre = MarshalIndent(<<>>) => file = last.pre

\* A clear succeeded on a ledger that held two entries.
ClearThenLoadEmptyWitness ==
    /\ last.op = "ClearActions"
    /\ last.err = ErrNone
    /\ Len(Before) >= 2
    /\ After = <<>>

\* C12: LoadActions returns an empty list without error when the file is
\* absent or zero-length, and an error when the file is not empty and is
\* not a JSON array of actions.
LoadRejectsNonArray ==
    last.op = "LoadActions" =>
        /\ last.pre.kind \in {"absent", "zero"} =>
                last.err = ErrNone /\ last.out = <<>>
        /\ last.pre.kind \notin {"absent", "zero", "array"} => last.err # ErrNone

\* C13: after a successful SaveAction, DeleteAction or ClearActions, from
\* any file, the file is a JSON array of action objects: LoadActions reads
\* it without error and marshalling what it returns gives the file back.
MutatorLeavesArray ==
    (last.op \in {"SaveAction", "DeleteAction", "ClearActions"} /\ last.err = ErrNone) =>
        /\ file.kind = "array"
        /\ loadActions(file).err = ErrNone
        /\ MarshalIndent(After) = file
        /\ \A i \in 1..Len(After) : MarshalAction(After[i]) = file.items[i]

\* A save succeeded on a file holding the JSON text null.
MutatorLeavesArrayWitness ==
    /\ last.op = "SaveAction"
    /\ last.err = ErrNone
    /\ last.pre = NullFile
    /\ Len(After) = 1

----------------------------------------------------------------------------
(* Goroutines of one process calling SaveAction and DeleteAction at once *)

\* A lock that never blocks.
Unguarded(m) == FALSE

\* mu.Lock() blocks while the mutex is held.
Locked(m) == m # 0


Procs == 1..NProc

ConcStored ==
    {ChaosAction("latency", "pod-1", "default", ts, Delay200) :
        ts \in {"2023-01-01T00:00:00Z", FormatRFC3339(1)}}

ConcOps ==
    {[op |-> "SaveAction", arg |-> ChaosAction("latency", "pod-1", "default", ts, Delay200)] :
        ts \in CallerStamps}
    \cup {[op |-> "DeleteAction", arg |-> a] : a \in ConcStored}

ConcStarts ==
    {AbsentFile} \cup
    {MarshalIndent(<<a>>) : a \in ConcStored} \cup
    {MarshalIndent(<<a, b>>) : a \in ConcStored, b \in ConcStored}

NoLoad == [actions |-> <<>>, err |-> ErrNone]

ConcInit ==
    /\ file \in ConcStarts
    /\ start = file
    /\ clock = 1
    /\ mu = 0
    /\ proc \in [Procs -> {[op |-> o.op, arg |-> o.arg, pc |-> "lock", ld |-> NoLoad,
                             err |-> ErrNone] : o \in ConcOps}]
    /\ last = NoCall
    /\ IdleCluster
    /\ IdleCmds

\* mu.Lock()
Lock(p) ==
    /\ proc[p].pc = "lock"
    /\ ~Locked(mu)
    /\ mu' = p
    /\ proc' = [proc EXCEPT ![p].pc = "load"]
    /\ UNCHANGED <<file, clock, start, last, clusterVars, cmdVars>>

\* SaveAction stamps the action; both callers then read the file.
Load(p) ==
    /\ proc[p].pc = "load"
    /\ proc' = [proc EXCEPT
            ![p].arg = IF proc[p].op = "SaveAction" THEN Stamp(@, clock) ELSE @,
            ![p].ld  = loadActions(file),
            ![p].pc  = "write"]
    /\ UNCHANGED <<file, clock, mu, start, last, clusterVars, cmdVars>>

\* The slice built from what was loaded is marshalled and written.
Write(p) ==
    /\ proc[p].pc = "write"
    /\ LET r == IF proc[p].op = "SaveAction"
                THEN SaveWrite(file, proc[p].ld, proc[p].arg)
                ELSE DeleteWrite(file, proc[p].ld, proc[p].arg) IN
        /\ file' = r.file
        /\ proc' = [proc EXCEPT ![p].err = r.err, ![p].pc = "unlock"]
    /\ UNCHANGED <<clock, mu, start, last, clusterVars, cmdVars>>

\* defer mu.Unlock()
Unlock(p) ==
    /\ proc[p].pc = "unlock"
    /\ mu' = 0
    /\ proc' = [proc EXCEPT ![p].pc = "done"]
    /\ UNCHANGED <<file, clock, start, last, clusterVars, cmdVars>>

ConcNext ==
    \/ Tick
    \/ \E p \in Procs : Lock(p)
    \/ \E p \in Procs : Load(p)
    \/ \E p \in Procs : Write(p)
    \/ \E p \in Procs : Unlock(p)

SpecLedger == ConcInit /\ [][ConcNext]_vars

AllDone == \A p \in Procs : proc[p].pc = "done"

\* The call of goroutine p run alone on file f.
RunAlone(f, p) ==
    IF proc[p].op = "SaveAction"
    THEN SaveAction(f, proc[p].arg, clock)
    ELSE DeleteAction(f, proc[p].arg)

\* The file after the first k calls of the order, run one after the other.
RECURSIVE SerialFile(_, _)
SerialFile(order, k) ==
    IF k = 0 THEN start ELSE RunAlone(SerialFile(order, k - 1), order[k]).file

Succeeded(op) == {p \in Procs : proc[p].op = op /\ proc[p].err = ErrNone}

\* C1: concurrent SaveAction and DeleteAction calls of one process are
\* atomic: when all have returned, the ledger and every call's result are
\* those of running the calls one after the other in some order, so no save
\* is lost and the deletes remove exactly their entries.
MutatorsSerializable ==
    AllDone =>
        /\ \E order \in Permutations(Procs) :
                /\ SerialFile(order, NProc) = file
                /\ \A k \in 1..NProc :
                        RunAlone(SerialFile(order, k - 1), order[k]).err = proc[order[k]].err
        /\ LedgerLen(file) = LedgerLen(start)
                + Cardinality(Succeeded("SaveAction"))
                - Cardinality(Succeeded("DeleteAction"))

\* Every goroutine returned without error, one saved and one deleted.
MutatorsSerializableWitness ==
    /\ AllDone
    /\ \A p \in Procs : proc[p].err = ErrNone
    /\ Succeeded("SaveAction") # {}
    /\ Succeeded("DeleteAction") # {}

----------------------------------------------------------------------------
(* The cluster, the backup files and the reversers of internal/rollback *)

Namespace == "default"

\* Names of ephemeral containers, as the pieces the markers are matched on.
LatencyContainer == <<"latency-injector", "-1700000000">>
CPUContainer     == <<"tipsy-", "cpu-stress", "-1700000000">>
OtherContainer   == <<"debugger">>

EphNames == {LatencyContainer, CPUContainer, OtherContainer}

\* strings.Contains(name, marker)
Contains(name, marker) ==
    \E i \in 1..Len(name) :
        /\ i + Len(marker) - 1 <= Len(name)
        /\ SubSeq(name, i, i + Len(marker) - 1) = marker

\* The name markers RevertTC looks for.
TCMarkers == {<<"latency-injector">>, <<"packetloss-injector">>, <<"tipsy-">>}

\* The name markers RemoveEphemeral looks for.
CPUMarkers == {<<"tipsy-", "cpu-stress">>, <<"tipsy-">>}

\* An Endpoints object and its JSON form; subsets has omitempty.
Endpoints(name, ns, subsets) == [Name |-> name, Namespace |-> ns, Subsets |-> subsets]

MarshalSubset(ss) ==
    [addresses |-> ss.Addresses, notReadyAddresses |-> ss.NotReadyAddresses,
     ports |-> ss.Ports]

UnmarshalSubset(j) ==
    [Addresses |-> j.addresses, NotReadyAddresses |-> j.notReadyAddresses,
     Ports |-> j.ports]

MarshalEndpoints(e) ==
    [metadata |-> [name |-> e.Name, namespace |-> e.Namespace],
     subsets  |-> IF e.Subsets = <<>> THEN [omitted |-> TRUE, list |-> <<>>]
                  ELSE [omitted |-> FALSE,
                        list |-> [i \in 1..Len(e.Subsets) |-> MarshalSubset(e.Subsets[i])]]]

UnmarshalEndpoints(j) ==
    [Name      |-> j.metadata.name,
     Namespace |-> j.metadata.namespace,
     Subsets   |-> IF j.subsets.omitted THEN <<>>
                   ELSE [i \in 1..Len(j.subsets.list) |-> UnmarshalSubset(j.subsets.list[i])]]

\* {home}/.tipsy/rollback/{service}_{namespace}.json
BackupPath(svcName, ns) == ".tipsy/rollback/" \o svcName \o "_" \o ns \o ".json"

NoBackup == [exists |-> FALSE, data |-> MarshalEndpoints(Endpoints("", "", <<>>))]

BackupOf(e) == [exists |-> TRUE, data |-> MarshalEndpoints(e)]

\* metadata[key], with the comma-ok result
MapHas(md, key) == \E kv \in md.kv : kv[1] = key

MapGet(md, key) == (CHOOSE kv \in md.kv : kv[1] = key)[2]

ErrGetPod      == "failed to get pod"
ErrHomeDir     == "failed to get user home directory"
ErrReadBackup  == "failed to read backup file"
ErrRestore     == "failed to restore endpoints"
ErrUnknownType == "unknown action type"

\* Pods(ns).Get(name): the pod must exist and the call must get through.
PodFound(name, ns, callOK) ==
    /\ callOK
    /\ ns = Namespace
    /\ name \in DOMAIN pods
    /\ pods[name].exists

Without(eph, name) == SelectSeq(eph, LAMBDA c : c # name)

\* The pod's list after the patch of removeEphemeralContainer was accepted.
PatchEphemeralContainers(eph, newEphemeralContainers) == newEphemeralContainers

\* The loop over containersToRemove; a failed removal is only warned about.
RECURSIVE RemoveEach(_, _, _)
RemoveEach(eph, toRemove, fails) ==
    IF toRemove = <<>> THEN eph
    ELSE RemoveEach(IF Head(toRemove) \in fails THEN eph
                    ELSE PatchEphemeralContainers(eph, Without(eph, Head(toRemove))),
                    Tail(toRemove), fails)

\* A reverser that returns e before any API call or file change; called says
\* whether the reverser issued an API call.
Unchanged(e) ==
    [err |-> e, pods |-> pods, endpoints |-> endpoints, backups |-> backups,
     called |-> FALSE]

\* The common body of RevertTC and RemoveEphemeral for a set of markers.
RemoveMatching(action, markers, api) ==
    IF ~PodFound(action.TargetPod, action.Namespace, api.get)
    THEN [Unchanged(ErrGetPod) EXCEPT !.called = TRUE]
    ELSE LET eph == pods[action.TargetPod].eph
             containersToRemove ==
                 SelectSeq(eph, LAMBDA c : \E m \in markers : Contains(c, m)) IN
         [Unchanged(ErrNone) EXCEPT
             !.called = TRUE,
             !.pods = [pods EXCEPT ![action.TargetPod].eph =
                          RemoveEach(eph, containersToRemove, api.fails)]]

\* A RevertTC that skips its dry-run check.
RevertTCNoDryRun(action, dryRun, api) == RemoveMatching(action, TCMarkers, api)

RevertTC(action, dryRun, api) ==
    IF dryRun THEN Unchanged(ErrNone) ELSE RemoveMatching(action, TCMarkers, api)

RemoveEphemeral(action, dryRun, api) ==
    IF dryRun THEN Unchanged(ErrNone) ELSE RemoveMatching(action, CPUMarkers, api)

\* A read that takes a missing file for an empty snapshot.
ReadBackupOrEmpty(path) ==
    IF path \in DOMAIN backups /\ backups[path].exists
    THEN [err |-> ErrNone, data |-> backups[path].data]
    ELSE [err |-> ErrNone, data |-> MarshalEndpoints(Endpoints("svc-1", "default", <<>>))]

\* What reading the backup file gives RestoreEndpoints.
ReadBackup(path) ==
    IF path \in DOMAIN backups /\ backups[path].exists
    THEN [err |-> ErrNone, data |-> backups[path].data]
    ELSE [err |-> ErrReadBackup, data |-> NoBackup.data]

\* Endpoints(ns).Update(obj): the object must exist in that namespace.
UpdateAccepted(obj, ns, callOK) ==
    /\ callOK
    /\ ns = Namespace
    /\ obj.Namespace = ns
    /\ obj.Name \in DOMAIN endpoints

RestoreEndpoints(action, dryRun, api) ==
    LET hasPath == MapHas(action.Metadata, "backupPath") IN
    IF ~hasPath /\ ~home THEN Unchanged(ErrHomeDir)
    ELSE IF dryRun THEN Unchanged(ErrNone)
    ELSE
        LET backupPath == IF hasPath THEN MapGet(action.Metadata, "backupPath")
                          ELSE BackupPath(action.TargetPod, action.Namespace)
            rd == ReadBackup(backupPath)
            backupEndpoints == UnmarshalEndpoints(rd.data) IN
        IF rd.err # ErrNone THEN Unchanged(ErrReadBackup)
        ELSE IF ~UpdateAccepted(backupEndpoints, action.Namespace, api.update)
        THEN [Unchanged(ErrRestore) EXCEPT !.called = TRUE]
        ELSE [err       |-> ErrNone,
              called    |-> TRUE,
              pods      |-> pods,
              endpoints |-> [endpoints EXCEPT ![backupEndpoints.Name] = backupEndpoints],
              backups   |-> IF api.remove
                            THEN [backups EXCEPT ![backupPath] = NoBackup]
                            ELSE backups]

\* A kill reverser that looks the pod up first.
handleKillGetsPod(action, dryRun, api) ==
    IF dryRun THEN Unchanged(ErrNone)
    ELSE IF PodFound(action.TargetPod, action.Namespace, api.get)
    THEN [Unchanged(ErrNone) EXCEPT !.called = TRUE]
    ELSE [Unchanged(ErrGetPod) EXCEPT !.called = TRUE]

\* A pod deletion cannot be undone: reported as handled.
handleKillAction(action, dryRun, api) == Unchanged(ErrNone)

\* A dispatch that takes a type it does not know for handled.
rollbackActionLenient(action, dryRun, api) ==
    CASE action.Type \in {"latency", "packetloss"} -> RevertTC(action, dryRun, api)
      [] action.Type = "cpustress" -> RemoveEphemeral(action, dryRun, api)
      [] action.Type = "misroute"  -> RestoreEndpoints(action, dryRun, api)
      [] OTHER                     -> handleKillAction(action, dryRun, api)

\* rollbackAction: the reverser of the action's type.
rollbackAction(action, dryRun, api) ==
    CASE action.Type \in {"latency", "packetloss"} -> RevertTC(action, dryRun, api)
      [] action.Type = "cpustress" -> RemoveEphemeral(action, dryRun, api)
      [] action.Type = "misroute"  -> RestoreEndpoints(action, dryRun, api)
      [] action.Type = "kill"      -> handleKillAction(action, dryRun, api)
      [] OTHER                     -> Unchanged(ErrUnknownType)

\* A filter that looks at the type only.
filterByType(actions, filterType, filterPod) ==
    SelectSeq(actions, LAMBDA a : filterType = "" \/ a.Type = filterType)

\* filterActions: walk the actions in order, skip one that fails the type
\* filter, skip one that fails the pod filter, append the others.
filterActions(actions, filterType, filterPod) ==
    LET filtered[i \in 0..Len(actions)] ==
            IF i = 0 THEN <<>>
            ELSE IF filterType # "" /\ actions[i].Type # filterType THEN filtered[i - 1]
            ELSE IF filterPod # "" /\ actions[i].TargetPod # filterPod THEN filtered[i - 1]
            ELSE Append(filtered[i - 1], actions[i]) IN
    filtered[Len(actions)]

----------------------------------------------------------------------------
(* RollbackAll, one loop iteration at a time *)

MaxBatch == 2       \* longest ledger a rollback starts from
MaxRuns  == 2       \* kill commands run one after the other
MaxCommands == 3    \* misroute and rollback commands run one after the other
MaxRollbacks == 1   \* rollback commands among them

Service == "svc-1"

ErrLoadState == "failed to load actions from state"

\* Entries the ledger can hold when a rollback starts.
Stamp0 == "2023-01-01T00:00:00Z"

LatencyAction   == ChaosAction("latency", "pod-1", Namespace, Stamp0, Delay200)
CPUStressAction == ChaosAction("cpustress", "pod-1", Namespace, Stamp0,
                               GoMap({<<"method", "yes">>}))
MisrouteAction  == ChaosAction("misroute", Service, Namespace, Stamp0,
                               GoMap({<<"service", Service>>, <<"remove_all", "true">>}))
MisrouteActionWithPath ==
    ChaosAction("misroute", Service, Namespace, Stamp0,
                GoMap({<<"backupPath", BackupPath(Service, Namespace)>>}))
KillAction      == ChaosAction("kill", "pod-1", Namespace, Stamp0, NilMap)
UnknownAction   == ChaosAction("reboot", "pod-1", Namespace, Stamp0, NilMap)

RollbackActions ==
    {LatencyAction, CPUStressAction, MisrouteAction, MisrouteActionWithPath,
     KillAction, UnknownAction}

KnownTypes == {"latency", "packetloss", "cpustress", "misroute", "kill"}

RECURSIVE SeqsUpTo(_, _)
SeqsUpTo(S, n) ==
    IF n = 0 THEN {<<>>}
    ELSE LET shorter == SeqsUpTo(S, n - 1) IN
         shorter \cup {Append(t, x) : t \in {u \in shorter : Len(u) = n - 1}, x \in S}

\* Endpoints of the service with one live address, and with none.
LiveEndpoints  == Endpoints(Service, Namespace,
                    <<[Addresses |-> <<"10.0.0.1">>, NotReadyAddresses |-> <<>>,
                       Ports |-> <<80>>]>>)
EmptyEndpoints == Endpoints(Service, Namespace, <<>>)

PodStates ==
    {[exists |-> FALSE, phase |-> "Running", eph |-> <<>>],
     [exists |-> TRUE, phase |-> "Running", eph |-> <<LatencyContainer, OtherContainer>>],
     [exists |-> TRUE, phase |-> "Running", eph |-> <<CPUContainer>>]}

\* Outcomes of the API calls and of os.Remove during one reversal: whether
\* the pod Get, the Endpoints Update and the file removal succeed, and the
\* containers whose removal fails.
ApiOutcomes ==
    [get : BOOLEAN, update : BOOLEAN, remove : BOOLEAN,
     fails : SUBSET {c \in EphNames : \E q \in DOMAIN pods : \E i \in DOMAIN pods[q].eph :
                                        pods[q].eph[i] = c}]

\* The outcomes that bear on one action's reversal: the Get and the container
\* removals for the ephemeral-container types, the Update and the file
\* removal for misroute; kill and unknown types call nothing.
OutcomesFor(action) ==
    {api \in ApiOutcomes :
        /\ action.Type \in {"latency", "packetloss", "cpustress"} \/ (api.get /\ api.fails = {})
        /\ action.Type = "misroute" \/ (api.update /\ api.remove)}

\* The backup file RestoreEndpoints would read for the action is not there.
BackupMissing(action) ==
    LET path == IF MapHas(action.Metadata, "backupPath")
                THEN MapGet(action.Metadata, "backupPath")
                ELSE BackupPath(action.TargetPod, action.Namespace) IN
    ~(path \in DOMAIN backups /\ backups[path].exists)

RollbackInit ==
    /\ file \in {AbsentFile, MalformedFile}
                \cup {MarshalIndent(l) : l \in SeqsUpTo(RollbackActions, MaxBatch)}
    /\ clock = 1
    /\ last = NoCall
    /\ IdleConc
    /\ home \in BOOLEAN
    /\ pods \in [{"pod-1"} -> PodStates]
    /\ endpoints \in [{Service} -> {EmptyEndpoints}]
    /\ backups \in [{BackupPath(Service, Namespace)} -> {NoBackup, BackupOf(LiveEndpoints)}]
    /\ IdleCmds

Snapshot == [file |-> file, pods |-> pods, endpoints |-> endpoints, backups |-> backups]

\* A rollback that goes on with whatever the load returned.
LoadErrorIgnored(err) == FALSE

\* if err != nil after state.LoadActions()
LoadFailed(err) == err # ErrNone

\* RollbackAll up to the loop: load, return when nothing is there or nothing
\* passes the filters.
RollbackStart(dryRun, filterType, filterPod) ==
    /\ rb.pc \in {"idle", "done"}
    /\ mr.pc \in {"idle", "done"}
    /\ hist.runs < MaxCommands
    /\ hist.rollbacks < MaxRollbacks
    /\ hist' = [hist EXCEPT !.runs = @ + 1, !.rollbacks = @ + 1]
    /\ mr' = IdleMr
    /\ LET ld == loadActions(file)
           filtered == filterActions(ld.actions, filterType, filterPod)
           call == [IdleRb EXCEPT !.dryRun = dryRun, !.filterType = filterType,
                                  !.filterPod = filterPod, !.before = <<Snapshot>>] IN
        rb' = IF LoadFailed(ld.err)
              THEN [call EXCEPT !.pc = "done", !.err = ErrLoadState]
              ELSE IF Len(ld.actions) = 0 \/ Len(filtered) = 0
              THEN [call EXCEPT !.pc = "done", !.actions = ld.actions]
              ELSE [call EXCEPT !.pc = "loop", !.actions = ld.actions,
                                !.filtered = filtered, !.idx = 1]
    /\ UNCHANGED <<ledgerVars, last, concVars, clusterVars, ch>>

\* A loop that never removes the action it reversed.
RemoveFromStateNever(f, action, dryRun) == f

\* After a successful reversal: DeleteAction unless dry run; its error is
\* only warned about.
RemoveFromState(f, action, dryRun) ==
    IF ~dryRun THEN DeleteAction(f, action).file ELSE f

\* A loop that stops at the first failure.
BreakOnFailure(idx, err, n) == IF err # ErrNone THEN n + 1 ELSE idx + 1

\* The loop goes on to the next action whatever the outcome.
NextIndex(idx, err, n) == idx + 1

\* The ephemeral containers of a pod, none for a name that is no pod.
EphOf(ps, name) == IF name \in DOMAIN ps /\ ps[name].exists THEN ps[name].eph ELSE <<>>

\* One iteration of the loop over filteredActions.
RollbackStep ==
    /\ rb.pc = "loop"
    /\ \E api \in OutcomesFor(rb.filtered[rb.idx]) :
        LET action == rb.filtered[rb.idx]
            r      == rollbackAction(action, rb.dryRun, api)
            next   == NextIndex(rb.idx, r.err, Len(rb.filtered))
            ledger == IF r.err = ErrNone THEN RemoveFromState(file, action, rb.dryRun)
                      ELSE file IN
        /\ pods' = r.pods
        /\ endpoints' = r.endpoints
        /\ backups' = r.backups
        /\ file' = ledger
        /\ rb' = [rb EXCEPT
                !.attempts = Append(@, [action |-> action, err |-> r.err,
                                        missing |-> BackupMissing(action),
                                        kept |-> r.backups = backups,
                                        updated |-> r.endpoints # endpoints,
                                        called |-> r.called,
                                        inert |-> /\ r.pods = pods
                                                  /\ r.endpoints = endpoints
                                                  /\ r.backups = backups,
                                        ephBefore |-> EphOf(pods, action.TargetPod),
                                        ephAfter |-> EphOf(r.pods, action.TargetPod),
                                        had |-> CountOf(loadActions(file).actions, action),
                                        left |-> CountOf(loadActions(ledger).actions, action)]),
                !.failedActions = IF r.err # ErrNone THEN Append(@, action) ELSE @,
                !.failureCount = IF r.err # ErrNone THEN @ + 1 ELSE @,
                !.successCount = IF r.err = ErrNone THEN @ + 1 ELSE @,
                !.idx = next,
                !.pc = IF next > Len(rb.filtered) THEN "summary" ELSE "loop"]
    /\ UNCHANGED <<clock, last, concVars, home, mr, hist, ch>>

\* The summary is logged and RollbackAll returns nil.
RollbackReturn ==
    /\ rb.pc = "summary"
    /\ rb' = [rb EXCEPT !.pc = "done", !.err = ErrNone]
    /\ UNCHANGED <<ledgerVars, last, concVars, clusterVars, mr, hist, ch>>

FilterTypes == {"", "misroute"}
FilterPods  == {"", "pod-1"}

\* The --type and --pod values a rollback command is given.
Filters == (FilterTypes \X FilterPods) \cup {<<"latency", "">>}

RollbackNext ==
    \/ \E d \in BOOLEAN, f \in Filters : RollbackStart(d, f[1], f[2])
    \/ RollbackStep
    \/ RollbackReturn

SpecRollback == RollbackInit /\ [][RollbackNext]_vars

----------------------------------------------------------------------------
(* MisrouteService, one external interaction at a time *)

ErrGetService   == "failed to get service"
ErrGetEndpoints == "failed to get endpoints for service"
ErrListPods     == "failed to list pods with selector"
ErrUpdate       == "failed to update endpoints"
ErrSaveBackup   == "failed to save original endpoints"

\* service.Spec.Ports of the service
ServicePorts(svcName) == <<[Port |-> 80, TargetPort |-> 8080]>>

\* The pods of the namespace as the API lists them.
PodOrder == <<"pod-1", "pod-2", "pod-3", "pod-4">>

PodObject(name) ==
    [Name |-> name, Namespace |-> Namespace, Phase |-> pods[name].phase,
     PodIP |-> "10.0.0.9", Conditions |-> <<[Type |-> "Ready", Status |-> "True"]>>,
     Labels |-> "app=canary"]

\* Pods(ns).List with a label selector
ListPods(selector) ==
    LET present == SelectSeq(PodOrder, LAMBDA n :
                      /\ n \in DOMAIN pods
                      /\ pods[n].exists
                      /\ PodObject(n).Labels = selector) IN
    [i \in 1..Len(present) |-> PodObject(present[i])]

\* isReady: a condition of type PodReady with status True is in the list.
isReady(pod) ==
    \E i \in 1..Len(pod.Conditions) :
        pod.Conditions[i].Type = "Ready" /\ pod.Conditions[i].Status = "True"

\* The endpoint ports built from the service ports: name, port and protocol
\* are copied, the target port is not.
EndpointPorts(servicePorts) == [i \in 1..Len(servicePorts) |-> servicePorts[i].Port]

\* A build that takes every pod with an IP, whatever its phase.
SkipsNoPhase(pod) == pod.PodIP = ""

\* A build that takes every running pod, with an IP or without.
SkipsNoIP(pod) == pod.Phase # "Running"

\* The pods the loop skips: not running, or without an IP.
Skipped(pod) == pod.Phase # "Running" \/ pod.PodIP = ""

\* A build that puts every eligible pod in the ready subset.
SplitAllReady(eligible, wantReady) == IF wantReady THEN eligible ELSE <<>>

\* The eligible pods that are ready, or those that are not.
Split(eligible, wantReady) == SelectSeq(eligible, LAMBDA q : isReady(q) = wantReady)

\* buildEndpointSubsetsFromPods: running pods with an IP, split by readiness;
\* one subset per non-empty part, each with the service's ports.
buildEndpointSubsetsFromPods(podList, servicePorts) ==
    IF Len(servicePorts) = 0 THEN <<>>
    ELSE
        LET eligible == SelectSeq(podList, LAMBDA q : ~Skipped(q))
            ready    == Split(eligible, TRUE)
            notReady == Split(eligible, FALSE)
            readyAddresses    == [i \in 1..Len(ready) |-> ready[i].PodIP]
            notReadyAddresses == [i \in 1..Len(notReady) |-> notReady[i].PodIP]
            ports == EndpointPorts(servicePorts) IN
        (IF Len(readyAddresses) > 0
         THEN <<[Addresses |-> readyAddresses, NotReadyAddresses |-> <<>>,
                 Ports |-> ports]>>
         ELSE <<>>)
        \o
        (IF Len(notReadyAddresses) > 0
         THEN <<[Addresses |-> <<>>, NotReadyAddresses |-> notReadyAddresses,
                 Ports |-> ports]>>
         ELSE <<>>)

\* A backup that records the Endpoints with their subsets already cleared.
saveClearedEndpoints(eps, svcName, ns, writeOK) ==
    IF ~home THEN [backups |-> backups, err |-> ErrHomeDir]
    ELSE IF ~writeOK THEN [backups |-> backups, err |-> ErrSaveBackup]
    ELSE [backups |-> [p \in DOMAIN backups \cup {BackupPath(svcName, ns)} |->
                          IF p = BackupPath(svcName, ns)
                          THEN BackupOf([eps EXCEPT !.Subsets = <<>>])
                          ELSE backups[p]],
          err |-> ErrNone]

\* saveOriginalEndpoints: the backup files after the call and its error.
saveOriginalEndpoints(eps, svcName, ns, writeOK) ==
    IF ~home THEN [backups |-> backups, err |-> ErrHomeDir]
    ELSE IF ~writeOK THEN [backups |-> backups, err |-> ErrSaveBackup]
    ELSE [backups |-> [p \in DOMAIN backups \cup {BackupPath(svcName, ns)} |->
                          IF p = BackupPath(svcName, ns) THEN BackupOf(eps) ELSE backups[p]],
          err |-> ErrNone]

\* MisrouteService: fetch the Service and its Endpoints.
MisrouteFetch(svcName, removeAll, replaceSelector, dryRun) ==
    /\ mr.pc \in {"idle", "done"}
    /\ rb.pc \in {"idle", "done"}
    /\ hist.runs < MaxCommands
    /\ hist' = [hist EXCEPT !.runs = @ + 1,
                            !.misroutes = IF dryRun THEN @ ELSE @ + 1]
    /\ rb' = IdleRb
    /\ \E svcOK, epOK \in BOOLEAN :
        LET call == [IdleMr EXCEPT !.svcName = svcName, !.namespace = Namespace,
                                   !.removeAll = removeAll,
                                   !.replaceSelector = replaceSelector,
                                   !.dryRun = dryRun, !.before = <<Snapshot>>] IN
        mr' = IF ~svcOK THEN [call EXCEPT !.pc = "done", !.err = ErrGetService]
              ELSE IF ~epOK \/ svcName \notin DOMAIN endpoints
              THEN [call EXCEPT !.pc = "done", !.err = ErrGetEndpoints]
              ELSE [call EXCEPT !.pc = "save", !.ports = ServicePorts(svcName),
                                !.endpoints = <<endpoints[svcName]>>]
    /\ UNCHANGED <<ledgerVars, last, concVars, clusterVars, ch>>

\* A misroute that writes the backup in a dry run too.
SavesBackupAlways(dryRun) == TRUE

\* The backup is written unless this is a dry run.
SavesBackup(dryRun) == ~dryRun

\* Save the original endpoints for rollback; a failure is only warned about.
MisrouteSave ==
    /\ mr.pc = "save"
    /\ \E writeOK \in BOOLEAN :
        LET r == IF SavesBackup(mr.dryRun)
                 THEN saveOriginalEndpoints(mr.endpoints[1], mr.svcName, mr.namespace, writeOK)
                 ELSE [backups |-> backups, err |-> ErrNone] IN
        /\ backups' = r.backups
        /\ mr' = [mr EXCEPT !.pc = "build", !.saveErr = r.err]
        /\ hist' = [hist EXCEPT !.saves = IF SavesBackup(mr.dryRun) /\ r.err = ErrNone
                                          THEN @ + 1 ELSE @]
    /\ UNCHANGED <<ledgerVars, last, concVars, home, pods, endpoints, rb, ch>>

\* A misroute that leaves the subsets alone when the selector finds no pod.
NewSubsetsKeeps(eps, removeAll, replaceSelector, ports) ==
    IF removeAll THEN <<>>
    ELSE IF replaceSelector # "" /\ Len(ListPods(replaceSelector)) # 0
    THEN buildEndpointSubsetsFromPods(ListPods(replaceSelector), ports)
    ELSE eps.Subsets

\* The subsets the modified copy gets.
NewSubsets(eps, removeAll, replaceSelector, ports) ==
    IF removeAll THEN <<>>
    ELSE IF replaceSelector # ""
    THEN IF Len(ListPods(replaceSelector)) = 0 THEN <<>>
         ELSE buildEndpointSubsetsFromPods(ListPods(replaceSelector), ports)
    ELSE eps.Subsets

\* Build the modified copy; a dry run logs it and returns.
MisrouteBuild ==
    /\ mr.pc = "build"
    /\ \E listOK \in BOOLEAN :
        LET modified == [mr.endpoints[1] EXCEPT !.Subsets =
                            NewSubsets(mr.endpoints[1], mr.removeAll,
                                       mr.replaceSelector, mr.ports)] IN
        mr' = IF ~mr.removeAll /\ mr.replaceSelector # "" /\ ~listOK
              THEN [mr EXCEPT !.pc = "done", !.err = ErrListPods]
              ELSE IF mr.dryRun
              THEN [mr EXCEPT !.pc = "done", !.modified = <<modified>>]
              ELSE [mr EXCEPT !.pc = "update", !.modified = <<modified>>]
    /\ UNCHANGED <<ledgerVars, last, concVars, clusterVars, rb, hist, ch>>

\* The single Endpoints update.
MisrouteUpdate ==
    /\ mr.pc = "update"
    /\ \E updateOK \in BOOLEAN :
        IF UpdateAccepted(mr.modified[1], mr.namespace, updateOK)
        THEN /\ endpoints' = [endpoints EXCEPT ![mr.svcName] = mr.modified[1]]
             /\ mr' = [mr EXCEPT !.pc = "done"]
             /\ hist' = [hist EXCEPT !.updates = @ + 1,
                                     !.pre = IF @ = <<>> THEN mr.endpoints ELSE @]
        ELSE /\ mr' = [mr EXCEPT !.pc = "done", !.err = ErrUpdate]
             /\ UNCHANGED <<endpoints, hist>>
    /\ UNCHANGED <<ledgerVars, last, concVars, home, pods, backups, rb, ch>>

Selectors == {"app=canary", "app=none"}

\* The ledgers a misroute run can meet: empty, one misroute entry with or
\* without a backup path, and a misroute entry behind another one.
MisrouteLedgers ==
    {<<>>, <<MisrouteAction>>, <<MisrouteActionWithPath>>,
     <<KillAction, MisrouteAction>>, <<MisrouteAction, MisrouteActionWithPath>>}

MisrouteInit ==
    /\ file \in {MarshalIndent(l) : l \in MisrouteLedgers}
    /\ clock = 1
    /\ last = NoCall
    /\ IdleConc
    /\ home \in BOOLEAN
    /\ pods \in [{"pod-1"} -> {[exists |-> FALSE, phase |-> "Running", eph |-> <<>>],
                                [exists |-> TRUE, phase |-> "Running", eph |-> <<>>]}]
    /\ endpoints \in [{Service} -> {LiveEndpoints, EmptyEndpoints}]
    /\ backups = [p \in {BackupPath(Service, Namespace)} |-> NoBackup]
    /\ IdleCmds

MisrouteNext ==
    \/ \E d \in BOOLEAN : MisrouteFetch(Service, TRUE, "", d)
    \/ \E d \in BOOLEAN, sel \in Selectors : MisrouteFetch(Service, FALSE, sel, d)
    \/ MisrouteSave
    \/ MisrouteBuild
    \/ MisrouteUpdate
    \/ \E d \in BOOLEAN, ft \in FilterTypes, fp \in FilterPods : RollbackStart(d, ft, fp)
    \/ RollbackStep
    \/ RollbackReturn

SpecMisroute == MisrouteInit /\ [][MisrouteNext]_vars

\* The attempts made so far that succeeded / failed, as sequences of actions.
AttemptedActions == [i \in 1..Len(rb.attempts) |-> rb.attempts[i].action]
ReversedActions ==
    LET ok == SelectSeq(rb.attempts, LAMBDA t : t.err = ErrNone) IN
    [i \in 1..Len(ok) |-> ok[i].action]
FailedAttempts ==
    LET ko == SelectSeq(rb.attempts, LAMBDA t : t.err # ErrNone) IN
    [i \in 1..Len(ko) |-> ko[i].action]

\* The entries of s at the indices outside drop, in order.
Keep(s, drop) ==
    LET F[i \in 0..Len(s)] ==
            IF i = 0 THEN <<>>
            ELSE IF i \in drop THEN F[i - 1] ELSE Append(F[i - 1], s[i]) IN
    F[Len(s)]

AtLoopBoundary == rb.pc \in {"loop", "summary", "done"} /\ Len(rb.filtered) > 0

\* C2: in a non-dry-run RollbackAll, whenever the loop is between two
\* actions (or has ended), the ledger holds the entries it held at the start
\* minus the actions reversed so far, the others in their order: every
\* reversed action is gone before the next one is attempted.
ReversedRemovedAtOnce ==
    (AtLoopBoundary /\ ~rb.dryRun) =>
        /\ loadActions(file).err = ErrNone
        /\ \E drop \in SUBSET (1..Len(rb.actions)) :
                /\ After = Keep(rb.actions, drop)
                /\ Cardinality(drop) = Len(ReversedActions)
                /\ \A a \in RollbackActions :
                        Cardinality({i \in drop : rb.actions[i] = a})
                            = CountOf(ReversedActions, a)

\* The first action was reversed and the second is about to be attempted.
ReversedRemovedAtOnceWitness ==
    /\ rb.pc = "loop"
    /\ ~rb.dryRun
    /\ rb.idx = 2
    /\ rb.attempts[1].err = ErrNone
    /\ rb.attempts[1].action # rb.filtered[2]

\* C3: a failed reversal leaves its action in the ledger, the loop goes on:
\* the actions attempted are the filtered ones, once each in ledger order,
\* and RollbackAll returns success.
FailureDoesNotAbort ==
    LET expected == SelectSeq(rb.actions, LAMBDA a :
                        /\ (rb.filterType = "" \/ a.Type = rb.filterType)
                        /\ (rb.filterPod = "" \/ a.TargetPod = rb.filterPod)) IN
    (AtLoopBoundary /\ FailedAttempts # <<>>) =>
        /\ Len(AttemptedActions) <= Len(expected)
        /\ AttemptedActions = SubSeq(expected, 1, Len(AttemptedActions))
        /\ \A a \in RollbackActions : CountOf(After, a) >= CountOf(FailedAttempts, a)
        /\ rb.pc = "done" =>
                /\ AttemptedActions = expected
                /\ rb.err = ErrNone

\* The first of two actions failed, the second was reversed, the call
\* returned.
FailureDoesNotAbortWitness ==
    /\ rb.pc = "done"
    /\ ~rb.dryRun
    /\ Len(rb.attempts) = 2
    /\ rb.attempts[1].err # ErrNone
    /\ rb.attempts[2].err = ErrNone
    /\ rb.err = ErrNone

\* The backup path of a dry-run misroute reversal cannot be resolved.
PathUnresolved(action) ==
    /\ action.Type = "misroute"
    /\ ~MapHas(action.Metadata, "backupPath")
    /\ ~home

\* C4 as stated: a dry-run rollback changes nothing (ledger file, pods,
\* Endpoints, backup files) and every action of a known type reports
\* success.
DryRunInertAndSucceeds ==
    (rb.dryRun /\ rb.pc # "idle") =>
        /\ Snapshot = rb.before[1]
        /\ \A i \in 1..Len(rb.attempts) :
                rb.attempts[i].action.Type \in KnownTypes => rb.attempts[i].err = ErrNone

\* C4, amended: a dry-run rollback changes nothing, and every action of a
\* known type reports success, pod or backup missing or not, except a
\* misroute action without backupPath metadata when the home directory
\* cannot be determined, which fails.
DryRunInert ==
    (rb.dryRun /\ rb.pc # "idle") =>
        /\ Snapshot = rb.before[1]
        /\ \A i \in 1..Len(rb.attempts) :
                LET t == rb.attempts[i] IN
                t.action.Type \in KnownTypes =>
                    IF PathUnresolved(t.action) THEN t.err = ErrHomeDir
                    ELSE t.err = ErrNone

\* A dry run went through a latency action whose pod does not exist and a
\* misroute action whose backup does not exist; both reported success.
DryRunInertWitness ==
    /\ rb.dryRun
    /\ rb.pc = "done"
    /\ ~pods["pod-1"].exists
    /\ \E i, j \in 1..Len(rb.attempts) :
            /\ rb.attempts[i].action.Type = "latency"
            /\ rb.attempts[i].err = ErrNone
            /\ rb.attempts[j].action.Type = "misroute"
            /\ rb.attempts[j].missing
            /\ rb.attempts[j].err = ErrNone

\* C7: in a non-dry-run rollback a misroute action whose backup file is
\* missing fails alone: the Endpoints are not updated, the action stays in
\* the ledger and the loop goes through the other filtered actions.
MissingBackupFailsAlone ==
    (~rb.dryRun /\ AtLoopBoundary) =>
        \A i \in 1..Len(rb.attempts) :
            LET t == rb.attempts[i] IN
            (t.action.Type = "misroute" /\ t.missing) =>
                /\ t.err # ErrNone
                /\ ~t.updated
                /\ CountOf(After, t.action) >= CountOf(FailedAttempts, t.action)
                /\ CountOf(After, t.action) >= 1
                /\ rb.pc = "done" => Len(rb.attempts) = Len(rb.filtered)

\* A misroute action without backup failed first, then a kill action went
\* through and left the ledger.
MissingBackupFailsAloneWitness ==
    /\ ~rb.dryRun
    /\ rb.pc = "done"
    /\ Len(rb.attempts) = 2
    /\ rb.attempts[1].action.Type = "misroute"
    /\ rb.attempts[1].missing
    /\ rb.attempts[1].err = ErrReadBackup
    /\ rb.attempts[2].action.Type = "kill"
    /\ rb.attempts[2].err = ErrNone
    /\ After = <<rb.attempts[1].action>>

----------------------------------------------------------------------------
(* filterActions on its own *)

FilterTypeInputs == {"", "latency", "misroute", "nonexistent"}
FilterPodInputs  == {"", "pod-1", Service}

FilterInit ==
    /\ file = AbsentFile
    /\ clock = 1
    /\ last = NoCall
    /\ IdleConc
    /\ IdleCluster
    /\ rb \in {[IdleRb EXCEPT !.actions = l] : l \in SeqsUpTo(RollbackActions, MaxBatch)}
    /\ mr = IdleMr
    /\ hist = [runs |-> 0, rollbacks |-> 0, misroutes |-> 0, saves |-> 0, updates |-> 0, pre |-> <<>>]
    /\ ch = IdleCh

\* filteredActions := filterActions(actions, filterType, filterPod)
FilterCall(filterType, filterPod) ==
    /\ rb.pc = "idle"
    /\ rb' = [rb EXCEPT !.pc = "filtered", !.filterType = filterType,
                        !.filterPod = filterPod,
                        !.filtered = filterActions(rb.actions, filterType, filterPod)]
    /\ UNCHANGED <<ledgerVars, last, concVars, clusterVars, mr, hist, ch>>

FilterNext == \E ft \in FilterTypeInputs, fp \in FilterPodInputs : FilterCall(ft, fp)

SpecFilter == FilterInit /\ [][FilterNext]_vars

\* The indices of the actions that pass the filters of the call.
Matching ==
    {i \in 1..Len(rb.actions) :
        /\ (rb.filterType = "" \/ rb.actions[i].Type = rb.filterType)
        /\ (rb.filterPod = "" \/ rb.actions[i].TargetPod = rb.filterPod)}

\* The k-th smallest matching index.
KthMatching(k) ==
    CHOOSE i \in Matching : Cardinality({j \in Matching : j <= i}) = k

\* C14: filterActions returns exactly the actions whose type passes the
\* type filter (empty or equal) and whose target pod passes the pod filter
\* (empty or equal), in ledger order; with both filters empty that is every
\* action, with both set the actions matching both.
FilterIsConjunction ==
    rb.pc = "filtered" =>
        /\ Len(rb.filtered) = Cardinality(Matching)
        /\ \A k \in 1..Len(rb.filtered) : rb.filtered[k] = rb.actions[KthMatching(k)]
        /\ (rb.filterType = "" /\ rb.filterPod = "") => rb.filtered = rb.actions

\* Both filters set on a ledger of two actions of the type, one on the pod.
FilterIsConjunctionWitness ==
    /\ rb.pc = "filtered"
    /\ rb.filterType = "latency"
    /\ rb.filterPod = "pod-1"
    /\ Len(rb.actions) = 2
    /\ Len(rb.filtered) = 1
    /\ rb.actions[1].Type = "cpustress"

\* C5: in every non-dry-run MisrouteService run, when the Endpoints update
\* is issued the backup file of (service, namespace) exists and holds the
\* Endpoints fetched before the mutation.
BackupBeforeUpdate ==
    mr.pc = "update" =>
        LET path == BackupPath(mr.svcName, mr.namespace) IN
        /\ path \in DOMAIN backups
        /\ backups[path].exists
        /\ UnmarshalEndpoints(backups[path].data) = mr.endpoints[1]

\* The last attempt of the running rollback restored the Endpoints.
Restored ==
    /\ ~rb.dryRun
    /\ AtLoopBoundary
    /\ \E i \in 1..Len(rb.attempts) :
            rb.attempts[i].action.Type = "misroute" /\ rb.attempts[i].err = ErrNone

LastRestore ==
    CHOOSE i \in 1..Len(rb.attempts) :
        /\ rb.attempts[i].action.Type = "misroute"
        /\ rb.attempts[i].err = ErrNone
        /\ \A j \in (i + 1)..Len(rb.attempts) :
                ~(rb.attempts[j].action.Type = "misroute" /\ rb.attempts[j].err = ErrNone)

\* C6 as stated: a single non-dry-run misroute that succeeded, followed by a
\* successful non-dry-run rollback of the misroute entry leaves the live
\* Endpoints as they were before the misroute, and the backup file is gone.
RoundTripRemovesBackup ==
    (hist.misroutes = 1 /\ hist.updates = 1 /\ Restored) =>
        /\ endpoints[Service] = hist.pre[1]
        /\ ~backups[BackupPath(Service, Namespace)].exists

\* C6, amended: the Endpoints are as before the misroute, and the backup
\* file is gone unless removing it failed, which the rollback only warns
\* about.
RoundTripRestores ==
    (hist.misroutes = 1 /\ hist.updates = 1 /\ Restored) =>
        /\ endpoints[Service] = hist.pre[1]
        /\ \/ ~backups[BackupPath(Service, Namespace)].exists
           \/ rb.attempts[LastRestore].kept

\* A remove-all misroute of a service with a live address was rolled back
\* and the backup file removed.
RoundTripRestoresWitness ==
    /\ hist.misroutes = 1
    /\ hist.updates = 1
    /\ Restored
    /\ rb.pc = "done"
    /\ hist.pre[1] = LiveEndpoints
    /\ endpoints[Service] = LiveEndpoints
    /\ ~backups[BackupPath(Service, Namespace)].exists

\* The attempts of the running rollback on actions of the given types.
AttemptsOn(types) == {i \in 1..Len(rb.attempts) : rb.attempts[i].action.Type \in types}

\* C16: rollback of a kill action reports success, issues no API call and
\* changes no pod, Endpoints or backup file, whether or not the pod exists;
\* outside dry run one entry equal to the action leaves the ledger, in dry
\* run none does.
KillAmnesty ==
    \A i \in AttemptsOn({"kill"}) :
        LET t == rb.attempts[i] IN
        /\ t.err = ErrNone
        /\ ~t.called
        /\ t.inert
        /\ t.had >= 1
        /\ t.left = IF rb.dryRun THEN t.had ELSE t.had - 1

\* A non-dry-run rollback handled the kill of a pod that no longer exists
\* and the ledger is left without the entry.
KillAmnestyWitness ==
    /\ rb.pc = "done"
    /\ ~rb.dryRun
    /\ ~pods["pod-1"].exists
    /\ \E i \in AttemptsOn({"kill"}) : rb.attempts[i].left = 0
    /\ CountOf(loadActions(file).actions, KillAction) = 0
    /\ CountOf(rb.before[1].file.items, MarshalAction(KillAction)) = 1

\* C17: an action of a type other than latency, packetloss, cpustress,
\* misroute and kill fails with the unknown-action-type error in dry run and
\* outside it: no API call is issued for it, nothing in the cluster changes,
\* its entry stays in the ledger, and the loop still attempts every action
\* of the batch.
UnknownTypeFailsAlone ==
    /\ \A i \in 1..Len(rb.attempts) :
            LET t == rb.attempts[i] IN
            t.action.Type \notin KnownTypes =>
                /\ t.err = ErrUnknownType
                /\ ~t.called
                /\ t.inert
                /\ t.had >= 1
                /\ t.left = t.had
    /\ (rb.pc \in {"summary", "done"} /\ Len(rb.filtered) > 0) =>
            /\ Len(rb.attempts) = Len(rb.filtered)
            /\ \A i \in 1..Len(rb.attempts) : rb.attempts[i].action = rb.filtered[i]

\* A non-dry-run rollback failed on an unknown type first and then reversed
\* a latency action.
UnknownTypeFailsAloneWitness ==
    /\ rb.pc = "done"
    /\ ~rb.dryRun
    /\ Len(rb.attempts) = 2
    /\ rb.attempts[1].action = UnknownAction
    /\ rb.attempts[1].err = ErrUnknownType
    /\ rb.attempts[2].action = LatencyAction
    /\ rb.attempts[2].err = ErrNone
    /\ loadActions(file).actions = <<UnknownAction>>

----------------------------------------------------------------------------
(* KillPods, one API call or one random draw at a time *)

MaxPods  == 3       \* pods in the namespace
MaxCount == 4       \* largest count asked for

PodNames == {PodOrder[i] : i \in 1..MaxPods}

Phases == {"Pending", "Running", "Succeeded", "Failed", "Unknown"}

Min(a, b) == IF a < b THEN a ELSE b
Max(a, b) == IF a > b THEN a ELSE b

ErrList == "failed to list pods"

\* A call on the API surface as the client saw it.
ApiCall(verb, pod, ok) == [verb |-> verb, pod |-> pod, ok |-> ok]

\* A count that is not limited to the pods available.
podsToKillUnclamped(count, n) == IF count <= 0 THEN 0 ELSE count

\* A count of zero or less taken to mean every pod.
podsToKillAll(count, n) == IF count <= 0 \/ n < count THEN n ELSE count

\* podsToKill: count, 0 when count <= 0, len(pods.Items) when that is less.
podsToKill(count, n) ==
    IF count <= 0 THEN 0
    ELSE IF n < count THEN n
    ELSE count

\* KillPods: list the pods of the selector and settle how many to kill.
KillList(selector, count, dryRun) ==
    /\ ch.pc \in {"idle", "done"}
    /\ hist.runs < MaxRuns
    /\ hist' = [hist EXCEPT !.runs = @ + 1]
    /\ \E listOK \in BOOLEAN :
        LET items == ListPods(selector)
            call  == [IdleCh EXCEPT !.kind = "kill", !.selector = selector,
                                    !.count = count, !.dryRun = dryRun,
                                    !.before = <<Snapshot>>,
                                    !.calls = <<ApiCall("list", "", listOK)>>] IN
        ch' = IF ~listOK THEN [call EXCEPT !.pc = "done", !.err = ErrList]
              ELSE IF Len(items) = 0 THEN [call EXCEPT !.pc = "done"]
              ELSE [call EXCEPT !.items = items,
                                !.podsToKill = podsToKill(count, Len(items)),
                                !.pc = IF podsToKill(count, Len(items)) = 0
                                       THEN "execute" ELSE "select"]
    /\ UNCHANGED <<ledgerVars, last, concVars, clusterVars, rb, mr>>

\* One draw of rand.Intn(len(pods.Items)): an index drawn before is drawn
\* again, a new one adds its pod to the selection.
KillSelect ==
    /\ ch.pc = "select"
    /\ \E index \in 1..Len(ch.items) :
        IF index \in ch.usedIndices
        THEN UNCHANGED ch
        ELSE LET selected == Append(ch.selectedPods, ch.items[index].Name) IN
             ch' = [ch EXCEPT !.usedIndices = @ \cup {index},
                              !.selectedPods = selected,
                              !.pc = IF Len(selected) < ch.podsToKill
                                     THEN "select" ELSE "execute"]
    /\ UNCHANGED <<ledgerVars, last, concVars, clusterVars, rb, mr, hist>>

\* Pods(ns).Delete(name)
DeleteAccepted(name, callOK) ==
    /\ callOK
    /\ name \in DOMAIN pods
    /\ pods[name].exists

\* A delete loop that gives up at the first failed delete.
AbortOnDeleteFailure(idx, ok, n) == IF ok THEN idx + 1 ELSE n

\* After a delete: its failure is logged and the loop goes on.
NextDelete(idx, ok, n) == idx + 1

\* The kill operation: a dry run logs the selection; otherwise the next
\* selected pod is deleted, a failure being logged and skipped.
KillExecute ==
    /\ ch.pc = "execute"
    /\ ch.kind = "kill"
    /\ IF ch.dryRun \/ ch.idx >= Len(ch.selectedPods)
       THEN /\ ch' = [ch EXCEPT !.pc = "done"]
            /\ UNCHANGED pods
       ELSE \E deleteOK \in BOOLEAN :
            LET podName == ch.selectedPods[ch.idx + 1]
                ok      == DeleteAccepted(podName, deleteOK) IN
            /\ pods' = IF ok THEN [pods EXCEPT ![podName].exists = FALSE] ELSE pods
            /\ ch' = [ch EXCEPT !.idx = NextDelete(@, ok, Len(ch.selectedPods)),
                                !.calls = Append(@, ApiCall("delete", podName, ok))]
    /\ UNCHANGED <<ledgerVars, last, concVars, home, endpoints, backups, rb, mr, hist>>

Counts == (0 - 1)..MaxCount

KillInit ==
    /\ file = AbsentFile
    /\ clock = 1
    /\ last = NoCall
    /\ IdleConc
    /\ home = TRUE
    /\ pods \in [PodNames -> {[exists |-> e, phase |-> "Running", eph |-> <<>>] :
                                e \in BOOLEAN}]
    /\ endpoints = <<>>
    /\ backups = <<>>
    /\ IdleCmds

KillNext ==
    \/ \E sel \in Selectors, c \in Counts, d \in BOOLEAN : KillList(sel, c, d)
    \/ KillSelect
    \/ KillExecute

SpecKill == KillInit /\ [][KillNext]_vars

\* rand.Intn is fair: while an index is unused, one is drawn in the end.
SpecKillFair == KillInit /\ [][KillNext]_vars /\ WF_vars(KillSelect)

\* The pods that exist among those KillPods listed.
Remaining == {i \in 1..Len(ch.items) : pods[ch.items[i].Name].exists}

\* The selection is complete.
Selected == ch.kind = "kill" /\ ch.pc \in {"execute", "done"} /\ ch.calls[1].ok

\* C15: for a count c and the pods P of the selector, KillPods selects
\* exactly min(max(c, 0), |P|) pods, distinct and all in P; in a dry run
\* all of P remain when it returns, and outside dry run, when every delete
\* succeeds, |P| minus that number remain.
KillSelectsClamped ==
    Selected =>
        LET n == Min(Max(ch.count, 0), Len(ch.items)) IN
        /\ Len(ch.selectedPods) = n
        /\ Cardinality({ch.selectedPods[i] : i \in 1..n}) = n
        /\ \A i \in 1..n : \E j \in 1..Len(ch.items) : ch.items[j].Name = ch.selectedPods[i]
        /\ (ch.pc = "done" /\ ch.dryRun) =>
                /\ Cardinality(Remaining) = Len(ch.items)
                /\ pods = ch.before[1].pods
        /\ (ch.pc = "done" /\ ~ch.dryRun /\ \A k \in 2..Len(ch.calls) : ch.calls[k].ok) =>
                /\ Cardinality(Remaining) = Len(ch.items) - n
                /\ \A i \in 1..n : ~pods[ch.selectedPods[i]].exists

\* A count above the number of pods killed all three of them, the last
\* listed first.
KillSelectsClampedWitness ==
    /\ Selected
    /\ ch.pc = "done"
    /\ ~ch.dryRun
    /\ ch.count > Len(ch.items)
    /\ Len(ch.items) = 3
    /\ ch.selectedPods[1] = ch.items[3].Name
    /\ Remaining = {}

----------------------------------------------------------------------------
(* InjectLatency, InjectPacketLoss, InjectCPUStress: one pod at a time *)

MaxInjections == 1  \* Inject* calls made one after the other

ErrMethod == "unsupported method"
ErrPatch  == "failed to add ephemeral container"

InjectKinds == {"latency", "packetloss", "cpustress"}

\* time.Now().Unix() as the suffix of a container name
UnixTable == <<"-1700000001", "-1700000002", "-1700000003", "-1700000004">>

\* The name of the ephemeral container of an injection.
ContainerName(kind, now) ==
    CASE kind = "latency"    -> <<"latency-injector", UnixTable[now]>>
      [] kind = "packetloss" -> <<"packetloss-injector", UnixTable[now]>>
      [] OTHER               -> <<"tipsy-", "cpu-stress", UnixTable[now]>>

\* The pod's list after a strategic-merge patch carrying one container: the
\* list is merged by name, a new name is added at the end.
MergeEphemeralContainers(eph, container) ==
    IF \E i \in 1..Len(eph) : eph[i] = container THEN eph ELSE Append(eph, container)

\* A patch body that repeats the containers the pod already has.
PatchBodyWithExisting(eph, container) == Append(eph, container)

\* The list under spec.ephemeralContainers of the patch body: the container
\* built for this injection and nothing else; the pod is not read first.
PatchBody(eph, container) == <<container>>

\* The server's strategic merge of a patch body into the pod's list.
RECURSIVE StrategicMerge(_, _)
StrategicMerge(eph, body) ==
    IF body = <<>> THEN eph
    ELSE StrategicMerge(MergeEphemeralContainers(eph, Head(body)), Tail(body))

\* Pods(ns).Patch(name, ..., "ephemeralContainers")
PatchAccepted(name, callOK) ==
    /\ callOK
    /\ name \in DOMAIN pods
    /\ pods[name].exists

\* strings.ToLower, on the letters the method names use
ToLower(str) ==
    CASE str = "Yes"       -> "yes"
      [] str = "STRESS-NG" -> "stress-ng"
      [] OTHER             -> str

\* A method switch that folds the case of the method first.
MethodSupportedFolded(method) == ToLower(method) \in {"stress-ng", "yes"}

\* The cases of the switch on method other than default.
MethodSupported(method) == method \in {"stress-ng", "yes"}

\* An injection that does not look at dryRun.
injectToPodAlways(kind, podName, method, dryRun, now, patchOK) ==
    IF kind = "cpustress" /\ ~MethodSupported(method)
    THEN [err |-> ErrMethod, pods |-> pods, calls |-> <<>>, body |-> <<>>]
    ELSE IF ~PatchAccepted(podName, patchOK)
    THEN [err |-> ErrPatch, pods |-> pods, calls |-> <<ApiCall("patch", podName, FALSE)>>,
          body |-> PatchBody(EphOf(pods, podName), ContainerName(kind, now))]
    ELSE [err   |-> ErrNone,
          pods  |-> [pods EXCEPT ![podName].eph =
                        StrategicMerge(@, PatchBody(@, ContainerName(kind, now)))],
          calls |-> <<ApiCall("patch", podName, TRUE)>>,
          body  |-> PatchBody(EphOf(pods, podName), ContainerName(kind, now))]

\* injectLatencyToPod, injectPacketLossToPod, injectCPUStressToPod: the
\* method is checked first (CPU stress only), a dry run returns after
\* logging, otherwise the container is patched in.
injectToPod(kind, podName, method, dryRun, now, patchOK) ==
    IF kind = "cpustress" /\ ~MethodSupported(method)
    THEN [err |-> ErrMethod, pods |-> pods, calls |-> <<>>, body |-> <<>>]
    ELSE IF dryRun
    THEN [err |-> ErrNone, pods |-> pods, calls |-> <<>>, body |-> <<>>]
    ELSE IF ~PatchAccepted(podName, patchOK)
    THEN [err |-> ErrPatch, pods |-> pods, calls |-> <<ApiCall("patch", podName, FALSE)>>,
          body |-> PatchBody(EphOf(pods, podName), ContainerName(kind, now))]
    ELSE [err   |-> ErrNone,
          pods  |-> [pods EXCEPT ![podName].eph =
                        StrategicMerge(@, PatchBody(@, ContainerName(kind, now)))],
          calls |-> <<ApiCall("patch", podName, TRUE)>>,
          body  |-> PatchBody(EphOf(pods, podName), ContainerName(kind, now))]

\* A list outcome that takes an empty result for an error.
ListOutcomeStrict(items, listOK) ==
    IF ~listOK \/ Len(items) = 0 THEN [pc |-> "done", err |-> ErrList]
    ELSE [pc |-> "loop", err |-> ErrNone]

\* After the List call: its error is returned; no pod found is warned about
\* and nil returned; otherwise the loop over the pods starts.
ListOutcome(items, listOK) ==
    IF ~listOK THEN [pc |-> "done", err |-> ErrList]
    ELSE IF Len(items) = 0 THEN [pc |-> "return", err |-> ErrNone]
    ELSE [pc |-> "loop", err |-> ErrNone]

\* Inject*: list the pods of the selector.
InjectList(kind, selector, method, dryRun) ==
    /\ ch.pc \in {"idle", "done"}
    /\ hist.runs < MaxInjections
    /\ hist' = [hist EXCEPT !.runs = @ + 1]
    /\ \E listOK \in BOOLEAN :
        LET items == ListPods(selector)
            call  == [IdleCh EXCEPT !.kind = kind, !.selector = selector,
                                    !.method = method, !.dryRun = dryRun,
                                    !.before = <<Snapshot>>,
                                    !.calls = <<ApiCall("list", "", listOK)>>] IN
        ch' = [call EXCEPT !.pc = ListOutcome(items, listOK).pc,
                           !.err = ListOutcome(items, listOK).err,
                           !.items = IF listOK THEN items ELSE <<>>]
    /\ UNCHANGED <<ledgerVars, last, concVars, clusterVars, rb, mr>>

\* The pods the call reports as affected: those whose patch was accepted.
affectedPods(sofar, podName, calls) ==
    IF calls # <<>> /\ calls[1].ok THEN Append(sofar, podName) ELSE sofar

\* A loop that injects into every listed pod.
EligibleAny(pod) == TRUE

\* The pods the loop does not skip.
Eligible(pod) == pod.Phase = "Running"

\* A loop that returns at the first pod whose injection failed.
StopAtFailure(idx, err, n) == IF err # ErrNone \/ idx + 1 >= n THEN "return" ELSE "loop"

\* After a pod: the loop goes on to the next one whatever the outcome, and
\* the function returns after the last.
AfterPod(idx, err, n) == IF idx + 1 >= n THEN "return" ELSE "loop"

\* The outcomes of the Patch call that bear on a pod: both when the call
\* is made, one when the pod is skipped, the method refused or the run dry.
PatchOutcomes(pod) ==
    IF /\ Eligible(pod)
       /\ ~ch.dryRun
       /\ ch.kind = "cpustress" => MethodSupported(ch.method)
    THEN BOOLEAN ELSE {TRUE}

\* One iteration of the loop over pods.Items: a pod that is not Running is
\* skipped with a warning, a failed injection is logged and the loop goes on.
InjectStep ==
    /\ ch.pc = "loop"
    /\ \E patchOK \in PatchOutcomes(ch.items[ch.idx + 1]) :
        LET pod == ch.items[ch.idx + 1]
            r   == IF Eligible(pod)
                   THEN injectToPod(ch.kind, pod.Name, ch.method, ch.dryRun, clock, patchOK)
                   ELSE [err |-> ErrNone, pods |-> pods, calls |-> <<>>, body |-> <<>>] IN
        /\ pods' = r.pods
        /\ ch' = [ch EXCEPT !.idx = @ + 1,
                            !.calls = @ \o r.calls,
                            !.affected = affectedPods(@, pod.Name, r.calls),
                            !.results = IF Eligible(pod)
                                        THEN Append(@, [pod |-> pod.Name, err |-> r.err,
                                                        body |-> r.body,
                                                        ephBefore |-> EphOf(pods, pod.Name),
                                                        ephAfter |-> EphOf(r.pods, pod.Name)])
                                        ELSE @,
                            !.pc = AfterPod(ch.idx, r.err, Len(ch.items))]
    /\ UNCHANGED <<ledgerVars, last, concVars, home, endpoints, backups, rb, mr, hist>>

\* The ledger entry the packetloss command writes for an affected pod.
InjectedAction(kind, podName, selector) ==
    ChaosAction(kind, podName, Namespace, "",
                GoMap({<<"loss", "30%">>, <<"duration", "60s">>, <<"selector", selector>>}))

\* The command's loop over the affected pods; a failed save is warned about.
RECURSIVE SaveEach(_, _, _, _, _)
SaveEach(f, kind, affected, selector, now) ==
    IF affected = <<>> THEN f
    ELSE SaveEach(SaveAction(f, InjectedAction(kind, Head(affected), selector), now).file,
                  kind, Tail(affected), selector, now)

\* The commands that go over the affected pods after the injection: the
\* packetloss command does; the latency and cpustress commands log that the
\* operation completed and return.
CommandSaves(kind) == kind = "packetloss"

\* Inject* returns nil; the packetloss command then records the affected
\* pods unless this is a dry run.
InjectReturn ==
    /\ ch.pc = "return"
    /\ ch' = [ch EXCEPT !.pc = "done"]
    /\ file' = IF CommandSaves(ch.kind) /\ ~ch.dryRun
               THEN SaveEach(file, ch.kind, ch.affected, ch.selector, clock)
               ELSE file
    /\ UNCHANGED <<clock, last, concVars, clusterVars, rb, mr, hist>>

Methods == {"stress-ng", "yes", "cpuburn", "", "Yes"}

\* The ephemeral containers a pod carries before any injection: the first
\* pod has a debugging container attached, the others have none.
AttachedBefore(name) == IF name = PodOrder[1] THEN <<OtherContainer>> ELSE <<>>

InjectInit ==
    /\ file \in {AbsentFile, MarshalIndent(<<KillAction>>)}
    /\ clock = 1
    /\ last = NoCall
    /\ IdleConc
    /\ home = TRUE
    /\ pods \in {[n \in PodNames |->
                    IF f[n].exists THEN [f[n] EXCEPT !.eph = AttachedBefore(n)] ELSE f[n]] :
                 f \in [PodNames -> {[exists |-> FALSE, phase |-> "Running", eph |-> <<>>]}
                               \cup {[exists |-> TRUE, phase |-> ph, eph |-> <<>>] :
                                        ph \in {"Running", "Pending", "Failed"}}]}
    /\ endpoints = <<>>
    /\ backups = <<>>
    /\ IdleCmds

InjectNext ==
    \/ \E k \in {"latency", "packetloss"}, sel \in Selectors, d \in BOOLEAN :
            InjectList(k, sel, "", d)
    \/ \E sel \in Selectors, m \in Methods, d \in BOOLEAN :
            InjectList("cpustress", sel, m, d)
    \/ InjectStep
    \/ InjectReturn

SpecInject == InjectInit /\ [][InjectNext]_vars

\* An Inject* call whose List call succeeded.
Injecting == ch.kind \in InjectKinds /\ ch.calls[1].ok

\* The listed pods in a phase other than Running.
NotRunning == {i \in 1..Len(ch.items) : ch.items[i].Phase # "Running"}

\* C18: InjectLatency, InjectPacketLoss and InjectCPUStress patch only
\* pods listed in phase Running; a listed pod in another phase is never
\* patched and keeps its ephemeral containers, and the call still returns
\* nil.
InjectOnlyRunning ==
    Injecting =>
        /\ \A k \in 2..Len(ch.calls) :
                /\ ch.calls[k].verb = "patch"
                /\ \E i \in 1..Len(ch.items) :
                        /\ ch.items[i].Name = ch.calls[k].pod
                        /\ ch.items[i].Phase = "Running"
        /\ \A i \in NotRunning :
                pods[ch.items[i].Name] = ch.before[1].pods[ch.items[i].Name]
        /\ ch.pc \in {"return", "done"} => ch.err = ErrNone

\* An injection returned after skipping a Failed pod and patching a Running
\* one.
InjectOnlyRunningWitness ==
    /\ Injecting
    /\ ch.pc = "done"
    /\ ~ch.dryRun
    /\ \E i \in NotRunning : ch.items[i].Phase = "Failed"
    /\ \E k \in 2..Len(ch.calls) : ch.calls[k].ok
    /\ ch.err = ErrNone

\* C19: an injection whose selector matches no pod returns nil, issues no
\* API call besides the List, changes no pod and writes no ledger entry.
NoPodsIsNoOp ==
    (Injecting /\ ch.items = <<>>) =>
        /\ ch.pc \in {"return", "done"}
        /\ ch.err = ErrNone
        /\ Len(ch.calls) = 1
        /\ ch.calls[1].verb = "list"
        /\ ch.affected = <<>>
        /\ pods = ch.before[1].pods
        /\ file = ch.before[1].file

\* A non-dry-run packet loss injection returned with a selector matching
\* none of the running pods of the namespace.
NoPodsIsNoOpWitness ==
    /\ Injecting
    /\ ch.items = <<>>
    /\ ch.pc = "done"
    /\ ch.kind = "packetloss"
    /\ ~ch.dryRun
    /\ \E n \in PodNames : pods[n].exists /\ pods[n].phase = "Running"

RunningListed ==
    LET running == SelectSeq(ch.items, LAMBDA q : q.Phase = "Running") IN
    [i \in 1..Len(running) |-> running[i].Name]

\* The pods of the patch calls made so far, in call order.
PatchedPods ==
    LET patches == SelectSeq(ch.calls, LAMBDA c : c.verb = "patch") IN
    [i \in 1..Len(patches) |-> patches[i].pod]

\* C21: when a non-dry-run injection with a supported method returns, a
\* patch was sent to every listed Running pod, in list order, whatever the
\* outcome of the patches before it; each accepted patch left its container
\* in the pod; the call returns nil, and an Inject* call returns an error
\* only when its List call failed.
PatchFailureDoesNotStop ==
    /\ (/\ Injecting
        /\ ~ch.dryRun
        /\ ch.kind = "cpustress" => MethodSupported(ch.method)
        /\ ch.pc \in {"return", "done"}) =>
            /\ PatchedPods = RunningListed
            /\ \A k \in 2..Len(ch.calls) :
                    ch.calls[k].ok =>
                        \E i \in 1..Len(pods[ch.calls[k].pod].eph) :
                            pods[ch.calls[k].pod].eph[i] = ContainerName(ch.kind, clock)
            /\ ch.err = ErrNone
    /\ (ch.kind \in InjectKinds /\ ch.err # ErrNone) =>
            /\ ch.err = ErrList
            /\ ~ch.calls[1].ok

\* A latency injection over three running pods returned nil after the
\* patch of the first pod failed and those of the other two were accepted.
PatchFailureDoesNotStopWitness ==
    /\ Injecting
    /\ ch.kind = "latency"
    /\ ~ch.dryRun
    /\ ch.pc = "done"
    /\ Len(ch.calls) = 4
    /\ ~ch.calls[2].ok
    /\ ch.calls[3].ok
    /\ ch.calls[4].ok
    /\ ch.err = ErrNone

\* C22: injectCPUStressToPod takes the methods stress-ng and yes and no
\* other: with any other method (empty, unknown, or differing in letter
\* case only) every call of it fails with the unsupported-method error and
\* no patch is sent, in dry run too; with one of the two, no call of it
\* fails with that error.
MethodValidated ==
    (ch.kind = "cpustress" /\ Injecting) =>
        IF ch.method \in {"stress-ng", "yes"}
        THEN \A i \in 1..Len(ch.results) : ch.results[i].err # ErrMethod
        ELSE /\ \A i \in 1..Len(ch.results) : ch.results[i].err = ErrMethod
             /\ PatchedPods = <<>>
             /\ pods = ch.before[1].pods
             /\ ch.pc \in {"return", "done"} => Len(ch.results) = Len(RunningListed)

\* A dry-run CPU stress injection with method Yes was refused for two
\* running pods.
MethodValidatedWitness ==
    /\ ch.kind = "cpustress"
    /\ Injecting
    /\ ch.dryRun
    /\ ch.method = "Yes"
    /\ ch.pc = "done"
    /\ Len(ch.results) >= 2
    /\ \A i \in 1..Len(ch.results) : ch.results[i].err = ErrMethod

\* C23 as stated, for the injection commands: when the command is done the
\* ledger is the one it found followed by one entry per pod it patched, of
\* the command's type and in patch order, and by nothing in a dry run.
LedgerRecordsAffected ==
    (Injecting /\ ch.pc = "done") =>
        LET had  == loadActions(ch.before[1].file).actions
            have == loadActions(file).actions
            done == IF ch.dryRun THEN <<>> ELSE ch.affected IN
        /\ Len(have) = Len(had) + Len(done)
        /\ \A i \in 1..Len(had) : have[i] = had[i]
        /\ \A i \in 1..Len(done) :
                /\ have[Len(had) + i].Type = ch.kind
                /\ have[Len(had) + i].TargetPod = done[i]

\* A misroute that removes everything: removeAll, or a replace selector
\* that no pod of the namespace matches.
RemovesEverything ==
    \/ mr.removeAll
    \/ mr.replaceSelector # "" /\ Len(ListPods(mr.replaceSelector)) = 0

\* C24: in a non-dry-run misroute with removeAll, or with a replace
\* selector matching no pod, the Endpoints object handed to the update has
\* no subsets, and once the update has succeeded the live Endpoints of the
\* service have none, whatever they had before.
MisrouteEmptiesSubsets ==
    (mr.pc \in {"update", "done"} /\ ~mr.dryRun /\ RemovesEverything) =>
        /\ mr.modified # <<>> => mr.modified[1].Subsets = <<>>
        /\ (mr.pc = "done" /\ mr.err = ErrNone) =>
                /\ endpoints[mr.svcName].Subsets = <<>>
                /\ endpoints[mr.svcName].Name = mr.endpoints[1].Name

\* A misroute with a selector matching no pod emptied Endpoints that had a
\* live address.
MisrouteEmptiesSubsetsWitness ==
    /\ mr.pc = "done"
    /\ ~mr.dryRun
    /\ ~mr.removeAll
    /\ mr.replaceSelector = "app=none"
    /\ mr.err = ErrNone
    /\ mr.endpoints[1] = LiveEndpoints
    /\ endpoints[Service].Subsets = <<>>

\* C25: a dry-run misroute never reaches the update call, and from its
\* start on the live Endpoints and the backup files are the ones it found.
MisrouteDryRunInert ==
    (mr.pc # "idle" /\ mr.dryRun) =>
        /\ mr.pc # "update"
        /\ mr.err # ErrUpdate
        /\ endpoints = mr.before[1].endpoints
        /\ backups = mr.before[1].backups
        /\ mr.saveErr = ErrNone

\* A dry-run removeAll misroute returned nil on a service with a live
\* address and no backup file.
MisrouteDryRunInertWitness ==
    /\ mr.pc = "done"
    /\ mr.dryRun
    /\ mr.removeAll
    /\ mr.err = ErrNone
    /\ mr.modified # <<>>
    /\ mr.modified[1].Subsets = <<>>
    /\ endpoints[Service] = LiveEndpoints
    /\ ~backups[BackupPath(Service, Namespace)].exists

\* The name markers of an action type that removes ephemeral containers.
MarkersOf(type) == IF type = "cpustress" THEN CPUMarkers ELSE TCMarkers

Marked(c, type) == \E m \in MarkersOf(type) : Contains(c, m)

\* The reversals of latency, packetloss and cpustress actions attempted so
\* far in a non-dry-run rollback.
ContainerAttempts ==
    {i \in 1..Len(rb.attempts) :
        /\ ~rb.dryRun
        /\ rb.attempts[i].action.Type \in {"latency", "packetloss", "cpustress"}}

\* C26 as stated: after a successful non-dry-run reversal of a latency,
\* packetloss or cpustress action the target pod holds no ephemeral
\* container with one of the type's markers in its name, and holds every
\* other container it had, in the same order.
RollbackRemovesMarked ==
    \A i \in ContainerAttempts :
        LET t == rb.attempts[i] IN
        t.err = ErrNone =>
            /\ \A k \in 1..Len(t.ephAfter) : ~Marked(t.ephAfter[k], t.action.Type)
            /\ t.ephAfter = SelectSeq(t.ephBefore, LAMBDA c : ~Marked(c, t.action.Type))

\* C28 as stated: a non-dry-run rollback takes a latency, packetloss or
\* cpustress action out of the ledger only when the target pod then holds
\* no ephemeral container with one of the type's markers in its name.
RemovedOnlyWhenClean ==
    \A i \in ContainerAttempts :
        LET t == rb.attempts[i] IN
        t.left < t.had =>
            \A k \in 1..Len(t.ephAfter) : ~Marked(t.ephAfter[k], t.action.Type)

\* The misroute entries of a ledger.
MisrouteEntries(actions) == SelectSeq(actions, LAMBDA a : a.Type = "misroute")

\* Every misroute so far was a non-dry-run one that saved its backup and
\* updated the Endpoints, the ledger held one misroute entry for each, and
\* a non-dry-run rollback of all of them has returned without an API or
\* home-directory failure.
MisroutesRolledBack ==
    /\ hist.misroutes >= 1
    /\ hist.updates = hist.misroutes
    /\ hist.saves = hist.misroutes
    /\ rb.pc = "done"
    /\ ~rb.dryRun
    /\ rb.err = ErrNone
    /\ rb.filterPod = ""
    /\ Len(MisrouteEntries(rb.actions)) = hist.misroutes
    /\ \A i \in AttemptsOn({"misroute"}) : rb.attempts[i].err \in {ErrNone, ErrReadBackup}

\* C27 as stated: after successful non-dry-run misroutes of the service
\* and a non-dry-run rollback of all misroute entries, the live Endpoints
\* are those from before the first misroute and the ledger holds no
\* misroute entry.
SnapshotSurvives ==
    MisroutesRolledBack =>
        /\ endpoints[Service] = hist.pre[1]
        /\ MisrouteEntries(loadActions(file).actions) = <<>>

\* C29: the selection loop of KillPods is never asked for more distinct
\* indices than there are pods, and with fair draws it ends: whenever the
\* loop runs it reaches the kill operation with exactly
\* min(max(count, 0), len(pods.Items)) distinct indices drawn.
SelectionTerminates ==
    /\ [](ch.pc = "select" =>
            /\ Len(ch.items) > 0
            /\ ch.podsToKill <= Len(ch.items)
            /\ Cardinality(ch.usedIndices) < ch.podsToKill
            /\ ch.usedIndices \subseteq 1..Len(ch.items))
    /\ (ch.pc = "select") ~>
            (/\ ch.pc = "execute"
             /\ Cardinality(ch.usedIndices) = Min(Max(ch.count, 0), Len(ch.items))
             /\ Len(ch.selectedPods) = Cardinality(ch.usedIndices))

\* The loop ended with all three indices drawn for a count above three.
SelectionTerminatesWitness ==
    /\ ch.kind = "kill"
    /\ ch.pc = "execute"
    /\ ch.idx = 0
    /\ Len(ch.items) = 3
    /\ ch.count > 3
    /\ ch.usedIndices = {1, 2, 3}

\* The pods of the delete calls made so far, in call order.
DeletedPods ==
    LET deletes == SelectSeq(ch.calls, LAMBDA c : c.verb = "delete") IN
    [i \in 1..Len(deletes) |-> deletes[i].pod]

\* C30: when a non-dry-run KillPods returns, a delete was attempted for
\* every selected pod, in selection order, whatever the outcome of the
\* deletes before it, every pod whose delete was accepted is gone, and the
\* call returns nil.
DeleteFailureDoesNotStop ==
    (Selected /\ ~ch.dryRun /\ ch.pc = "done") =>
        /\ DeletedPods = ch.selectedPods
        /\ \A k \in 2..Len(ch.calls) : ch.calls[k].ok => ~pods[ch.calls[k].pod].exists
        /\ ch.err = ErrNone

\* KillPods returned nil after the first of three deletes failed and the
\* other two were accepted.
DeleteFailureDoesNotStopWitness ==
    /\ Selected
    /\ ~ch.dryRun
    /\ ch.pc = "done"
    /\ Len(ch.calls) = 4
    /\ ~ch.calls[2].ok
    /\ ch.calls[3].ok
    /\ ch.calls[4].ok
    /\ ch.err = ErrNone

----------------------------------------------------------------------------
(* buildEndpointSubsetsFromPods on its own *)

MaxBuild == 2       \* longest pod list handed to buildEndpointSubsetsFromPods

IPTable == <<"10.0.0.1", "10.0.0.2", "10.0.0.3", "10.0.0.4">>

ConditionLists ==
    {<<>>,
     <<[Type |-> "Ready", Status |-> "True"]>>,
     <<[Type |-> "Ready", Status |-> "False"]>>,
     <<[Type |-> "Initialized", Status |-> "True"], [Type |-> "Ready", Status |-> "True"]>>,
     <<[Type |-> "Initialized", Status |-> "True"]>>}

\* The pods a List can return in the i-th place.
PodInputs(i) ==
    {[Name |-> PodOrder[i], Namespace |-> Namespace, Phase |-> ph, PodIP |-> ip,
      Conditions |-> cs, Labels |-> "app=canary"] :
        ph \in {"Running", "Pending", "Failed"}, ip \in {"", IPTable[i]},
        cs \in ConditionLists}

RECURSIVE PodLists(_)
PodLists(n) ==
    IF n = 0 THEN {<<>>}
    ELSE LET shorter == PodLists(n - 1) IN
         shorter \cup {Append(t, q) : t \in {u \in shorter : Len(u) = n - 1},
                                       q \in PodInputs(n)}

PortLists ==
    {<<>>, <<[Port |-> 80, TargetPort |-> 8080]>>,
     <<[Port |-> 80, TargetPort |-> 8080], [Port |-> 443, TargetPort |-> 8443]>>}

BuildInit ==
    /\ file = AbsentFile
    /\ clock = 1
    /\ last = NoCall
    /\ IdleConc
    /\ IdleCluster
    /\ rb = IdleRb
    /\ mr \in {[IdleMr EXCEPT !.podList = l, !.ports = sp] :
                    l \in PodLists(MaxBuild), sp \in PortLists}
    /\ hist = [runs |-> 0, rollbacks |-> 0, misroutes |-> 0, saves |-> 0, updates |-> 0, pre |-> <<>>]
    /\ ch = IdleCh

\* newSubsets, err := buildEndpointSubsetsFromPods(pods.Items, service.Spec.Ports)
BuildCall ==
    /\ mr.pc = "idle"
    /\ mr' = [mr EXCEPT !.pc = "built",
                        !.subsets = buildEndpointSubsetsFromPods(mr.podList, mr.ports)]
    /\ UNCHANGED <<ledgerVars, last, concVars, clusterVars, rb, hist, ch>>

BuildNext == BuildCall

SpecBuild == BuildInit /\ [][BuildNext]_vars

\* The addresses of the subsets built, ready ones and not-ready ones.
BuiltReady ==
    UNION {{mr.subsets[k].Addresses[i] : i \in 1..Len(mr.subsets[k].Addresses)} :
                k \in 1..Len(mr.subsets)}
BuiltNotReady ==
    UNION {{mr.subsets[k].NotReadyAddresses[i] :
                i \in 1..Len(mr.subsets[k].NotReadyAddresses)} :
                k \in 1..Len(mr.subsets)}

\* The pods handed to the call, by position.
Given == 1..Len(mr.podList)

\* C31 as stated: the selector-based replacement applies no phase filter:
\* for a service with a port, every listed pod with an IP has its address
\* in the subsets built, whatever its phase.
NoPhaseFilter ==
    (mr.pc = "built" /\ mr.ports # <<>>) =>
        \A i \in Given :
            mr.podList[i].PodIP # "" =>
                mr.podList[i].PodIP \in BuiltReady \cup BuiltNotReady

\* C32: no subset built holds the address of a pod that is not Running or
\* has no IP; no subset is built when every pod is skipped, and none when
\* the service has no port.
SkipsIneligible ==
    mr.pc = "built" =>
        /\ \A i \in Given :
                (mr.podList[i].Phase # "Running" \/ mr.podList[i].PodIP = "") =>
                    /\ IPTable[i] \notin BuiltReady \cup BuiltNotReady
                    /\ "" \notin BuiltReady \cup BuiltNotReady
        /\ (\A i \in Given : mr.podList[i].Phase # "Running" \/ mr.podList[i].PodIP = "") =>
                mr.subsets = <<>>
        /\ mr.ports = <<>> => mr.subsets = <<>>

\* No subset came out of a pending pod with an IP and a running pod
\* without one, for a service with a port.
SkipsIneligibleWitness ==
    /\ mr.pc = "built"
    /\ mr.ports # <<>>
    /\ Len(mr.podList) = 2
    /\ mr.podList[1].Phase = "Pending"
    /\ mr.podList[1].PodIP # ""
    /\ mr.podList[2].Phase = "Running"
    /\ mr.podList[2].PodIP = ""
    /\ mr.subsets = <<>>

\* The listed pods that are Running and have an IP, and among them those
\* with a PodReady condition of status True.
EligibleGiven == {i \in Given : mr.podList[i].Phase = "Running" /\ mr.podList[i].PodIP # ""}
ReadyGiven ==
    {i \in EligibleGiven :
        [Type |-> "Ready", Status |-> "True"] \in
            {mr.podList[i].Conditions[k] : k \in 1..Len(mr.podList[i].Conditions)}}

\* C33: for a service with a port, buildEndpointSubsetsFromPods returns at
\* most two subsets, one for each non-empty part of the eligible pods split
\* by readiness: the ready addresses are exactly those of the eligible
\* ready pods, the not-ready addresses exactly those of the other eligible
\* pods, no address is in both or listed twice, no subset is empty, and
\* each subset has the port of every service port, in order.
BuildPartitions ==
    (mr.pc = "built" /\ mr.ports # <<>>) =>
        /\ Len(mr.subsets) = (IF ReadyGiven # {} THEN 1 ELSE 0)
                             + (IF EligibleGiven \ ReadyGiven # {} THEN 1 ELSE 0)
        /\ BuiltReady = {mr.podList[i].PodIP : i \in ReadyGiven}
        /\ BuiltNotReady = {mr.podList[i].PodIP : i \in EligibleGiven \ ReadyGiven}
        /\ BuiltReady \cap BuiltNotReady = {}
        /\ \A k \in 1..Len(mr.subsets) :
                LET ss == mr.subsets[k] IN
                /\ (ss.Addresses = <<>>) # (ss.NotReadyAddresses = <<>>)
                /\ Len(ss.Addresses) + Len(ss.NotReadyAddresses)
                        = Cardinality({ss.Addresses[i] : i \in 1..Len(ss.Addresses)})
                          + Cardinality({ss.NotReadyAddresses[i] :
                                            i \in 1..Len(ss.NotReadyAddresses)})
                /\ Len(ss.Ports) = Len(mr.ports)
                /\ \A i \in 1..Len(mr.ports) : ss.Ports[i] = mr.ports[i].Port

\* Two subsets with two ports each came out of a ready pod and a pod whose
\* PodReady condition is False.
BuildPartitionsWitness ==
    /\ mr.pc = "built"
    /\ Len(mr.ports) = 2
    /\ Len(mr.podList) = 2
    /\ ReadyGiven = {2}
    /\ EligibleGiven = {1, 2}
    /\ mr.podList[1].Conditions = <<[Type |-> "Ready", Status |-> "False"]>>
    /\ Len(mr.subsets) = 2
    /\ mr.subsets[1].Addresses = <<IPTable[2]>>
    /\ mr.subsets[2].NotReadyAddresses = <<IPTable[1]>>

\* ---------------------------------------------------------------------
\* Patch delivery
\* ---------------------------------------------------------------------

\* The pods of the current Inject* call whose patch the server accepted.
Patched == {i \in 1..Len(ch.results) : ch.results[i].err = ErrNone /\ ch.results[i].body # <<>>}

IsPrefix(a, b) == Len(a) <= Len(b) /\ SubSeq(b, 1, Len(a)) = a

Holds(eph, container) == \E k \in 1..Len(eph) : eph[k] = container

CPUStressRecorded(podName) ==
    LET ld == loadActions(file) IN
    \E k \in 1..Len(ld.actions) :
        ld.actions[k].Type = "cpustress" /\ ld.actions[k].TargetPod = podName

\* The containers of a list that a cpustress injection attached.
CPUStressContainers(eph) ==
    {eph[k] : k \in {j \in 1..Len(eph) : Contains(eph[j], <<"tipsy-", "cpu-stress">>)}}

\* C35 as stated: a rollback with the type filter latency or packetloss
\* removes no ephemeral container of a cpustress injection whose entry is
\* still in the ledger.
TypeFilterKeepsOthers ==
    rb.filterType \in {"latency", "packetloss"} =>
        \A i \in ContainerAttempts :
            LET t == rb.attempts[i] IN
            CPUStressRecorded(t.action.TargetPod) =>
                \A c \in CPUStressContainers(t.ephBefore) : Holds(t.ephAfter, c)

\* ---------------------------------------------------------------------
\* Rollback of a ledger that cannot be loaded
\* ---------------------------------------------------------------------

\* The ledger the current rollback started from could not be loaded.
LedgerUnloadable == rb.pc # "idle" /\ loadActions(rb.before[1].file).err # ErrNone

\* C37: when the ledger cannot be loaded, RollbackAll returns the load error
\* at once: no reversal is attempted, so no API call is made, and the
\* ledger file, the pods, the Endpoints and the backups are as they were.
LoadFailureAborts ==
    LedgerUnloadable =>
        /\ rb.pc = "done"
        /\ rb.err = ErrLoadState
        /\ rb.attempts = <<>>
        /\ rb.successCount = 0 /\ rb.failureCount = 0
        /\ Snapshot = rb.before[1]

\* A rollback met a malformed ledger and returned.
LoadFailureAbortsWitness ==
    /\ LedgerUnloadable
    /\ rb.pc = "done"
    /\ file = MalformedFile
    /\ \E p \in DOMAIN pods : pods[p].exists /\ pods[p].eph # <<>>

\* ---------------------------------------------------------------------
\* A save that fails
\* ---------------------------------------------------------------------

\* C38: SaveAction on a ledger file that cannot be parsed returns the load
\* error and leaves the file as it was, neither overwritten nor truncated.
FailedSaveKeepsFile ==
    (last.op = "SaveAction" /\ loadActions(last.pre).err # ErrNone) =>
        /\ last.err = ErrLoad
        /\ file = last.pre

\* SaveAction was called on the malformed file and has returned.
FailedSaveKeepsFileWitness ==
    /\ last.op = "SaveAction"
    /\ last.pre = MalformedFile
    /\ last.err # ErrNone
    /\ file = MalformedFile

\* ---------------------------------------------------------------------
\* Separate processes saving to the same ledger file
\* ---------------------------------------------------------------------

\* A mutex that every process would share.
SharedMutex(p) == 1

\* The mutex a process locks: mu is a package variable, one per process.
MutexOf(p) == p

\* What each process saves: its own pod's latency action.
ProcessOps ==
    {[p \in Procs |->
        [op |-> "SaveAction",
         arg |-> ChaosAction("latency", PodOrder[p], Namespace, ts[p], Delay200),
         pc |-> "lock", ld |-> NoLoad, err |-> ErrNone]] :
     ts \in [Procs -> CallerStamps]}

ProcessInit ==
    /\ file \in {AbsentFile, MalformedFile, MarshalIndent(<<KillAction>>),
                 MarshalIndent(<<KillAction, MisrouteAction>>)}
    /\ start = file
    /\ clock = 1
    /\ mu = [m \in Procs |-> 0]
    /\ proc \in ProcessOps
    /\ last = NoCall
    /\ IdleCluster
    /\ IdleCmds

\* mu.Lock() in process p
ProcessLock(p) ==
    /\ proc[p].pc = "lock"
    /\ ~Locked(mu[MutexOf(p)])
    /\ mu' = [mu EXCEPT ![MutexOf(p)] = p]
    /\ proc' = [proc EXCEPT ![p].pc = "load"]
    /\ UNCHANGED <<file, clock, start, last, clusterVars, cmdVars>>

\* defer mu.Unlock() in process p
ProcessUnlock(p) ==
    /\ proc[p].pc = "unlock"
    /\ mu' = [mu EXCEPT ![MutexOf(p)] = 0]
    /\ proc' = [proc EXCEPT ![p].pc = "done"]
    /\ UNCHANGED <<file, clock, start, last, clusterVars, cmdVars>>

ProcessNext ==
    \/ \E p \in Procs : ProcessLock(p)
    \/ \E p \in Procs : Load(p)
    \/ \E p \in Procs : Write(p)
    \/ \E p \in Procs : ProcessUnlock(p)

SpecProcesses == ProcessInit /\ [][ProcessNext]_vars

\* The saves that returned nil and whose action the file does not hold.
LostSaves ==
    {p \in Procs :
        /\ proc[p].pc = "done"
        /\ proc[p].err = ErrNone
        /\ ~\E k \in 1..Len(loadActions(file).actions) :
                loadActions(file).actions[k] = proc[p].arg}

\* C36: separate processes saving to one ledger file are not synchronized:
\* no process ever waits for another at its lock, a process can load while
\* another is between its load and its write, and when all have returned
\* without error the file holds the entries of the start and at least one,
\* not necessarily each, of the saved actions.
ProcessesUnsynchronized ==
    /\ \A p \in Procs : proc[p].pc = "lock" => ~Locked(mu[MutexOf(p)])
    /\ (AllDone /\ \A p \in Procs : proc[p].err = ErrNone) =>
            /\ LedgerLen(file) >= LedgerLen(start) + 1
            /\ LedgerLen(file) <= LedgerLen(start) + NProc
            /\ SubSeq(loadActions(file).actions, 1, LedgerLen(start))
                    = loadActions(start).actions
            /\ LostSaves # Procs

\* Both processes loaded before either wrote, both returned nil, and the
\* action one of them saved is missing from the file.
ProcessesUnsynchronizedWitness ==
    /\ AllDone
    /\ \A p \in Procs : proc[p].err = ErrNone
    /\ LostSaves # {}
    /\ LedgerLen(file) = LedgerLen(start) + 1

====
